---- MODULE Spec2Model ----
(***************************************************************************)
(* kleinPDF: the batch compression handler                                 *)
(* (internal/application/compression.go) driving the Ghostscript service   *)
(* (internal/services/pdf.go) from a bounded pool of worker goroutines.     *)
(*                                                                         *)
(* One batch call is modelled: the calling goroutine (validate, enqueue,    *)
(* start workers, drain the result channel, respond), the worker            *)
(* goroutines, the goroutine that waits for the workers and closes the      *)
(* result channel, the context that may be cancelled at any moment, the     *)
(* wall clock that names the output files and numbers the work items, the   *)
(* file system the Ghostscript processes read and write, and the            *)
(* StatsManager the caller updates (internal/application/stats.go).         *)
(***************************************************************************)
EXTENDS Integers, Sequences, FiniteSets, TLC

(* ---------------------------- bounds ----------------------------------- *)

\* longest file list of a request
MaxFiles == 2

\* the wall clock advances by at most MaxTime seconds while a batch runs
MaxTime == 0

(* ------------------------ program constants ---------------------------- *)

MaxConcurrencyLimit == 8

DefaultCompressionLevel == "good_enough"

\* values runtime.NumCPU() may return on the machine of the run
CPUChoices == {1, 2}

(* ------------------------------ paths ---------------------------------- *)
(* A path is a sequence of tokens: name tokens, the separator "/" and the   *)
(* extension ".pdf" (which the code searches for as a substring).           *)

InputPaths == { <<"d", "/", "a", ".pdf">>, <<"d", "/", "b">> }

Min(a, b) == IF a < b THEN a ELSE b

\* index of the last separator of p, 0 when there is none
LastSep(p) ==
    LET S == {i \in 1..Len(p) : p[i] = "/"}
    IN  IF S = {} THEN 0 ELSE CHOOSE i \in S : \A k \in S : k <= i

\* filepath.Base
Base(p) == SubSeq(p, LastSep(p) + 1, Len(p))

\* filepath.Dir
Dir(p) == IF LastSep(p) = 0 THEN <<".">> ELSE SubSeq(p, 1, LastSep(p) - 1)

\* filepath.Join(dir, name)
Join(d, n) == d \o <<"/">> \o n

\* strings.TrimSuffix(name, ".pdf")
TrimSuffix(n) ==
    IF Len(n) > 0 /\ n[Len(n)] = ".pdf" THEN SubSeq(n, 1, Len(n) - 1) ELSE n

\* strings.Replace(p, ".pdf", "_grayscale_temp.pdf", 1): first occurrence only
ReplaceFirst(p) ==
    LET S == {i \in 1..Len(p) : p[i] = ".pdf"}
    IN  IF S = {} THEN p
        ELSE LET f == CHOOSE i \in S : \A k \in S : i <= k
             IN  [p EXCEPT ![f] = "_grayscale_temp.pdf"]

\* time.Now().UTC().Format("20060102_150405"): the clock at a resolution of 1s
Timestamp(t) == ToString(t)

\* the output path processSingleFileWithProgress computes for an input path
CompressedPath(p, t) ==
    Join(Dir(p), TrimSuffix(Base(p)) \o <<"_", Timestamp(t), "_compressed.pdf">>)

(* --------------------------- sizes, ratios ----------------------------- *)

\* info.Size() of os.Stat(p) for the files of a batch run: the input d/a.pdf
\* holds 2 bytes, the input d/b is an empty file, and a file an engine process
\* wrote holds 1 byte
SizeOf(p) ==
    IF p = <<"d", "/", "a", ".pdf">> THEN 2
    ELSE IF p = <<"d", "/", "b">> THEN 0
    ELSE 1

\* the float64 zero value
FloatZero == [kind |-> "finite", num |-> 0, den |-> 1]

\* float64(orig-comp) / float64(orig) * 100 in IEEE-754 arithmetic: a finite
\* quotient num/den, or NaN (0/0), or an infinity (x/0 with x # 0)
RatioPercent(orig, comp) ==
    IF orig # 0 THEN [kind |-> "finite", num |-> (orig - comp) * 100, den |-> orig]
    ELSE IF orig - comp = 0 THEN [kind |-> "NaN", num |-> 0, den |-> 0]
    ELSE IF orig - comp > 0 THEN [kind |-> "+Inf", num |-> 1, den |-> 0]
    ELSE [kind |-> "-Inf", num |-> -1, den |-> 0]

(* ----------------------- profile and preferences ----------------------- *)
(* The stored preferences are a record: err tells that the preferences      *)
(* cannot be read from the database, the other fields are the stored values *)
(* (GetOrCreatePreferences stores DefaultPreferences() when there are none). *)

\* values a profile field may hold: the three profiles, a value that names no
\* profile, and the empty string
Levels == {"", "good_enough", "aggressive", "ultra", "fast"}

\* PreferencesService.GetPreferences: the stored values, or an error
GetPreferences(p) == IF p.err THEN [nil |-> TRUE, err |-> TRUE]
                     ELSE [nil |-> FALSE, err |-> FALSE]

\* variant: the stored preference wins over the request
resolveCompressionLevelStored(requestedLevel, p) ==
    IF ~GetPreferences(p).err
    THEN [level |-> p.DefaultCompressionLevel, err |-> ""]
    ELSE [level |-> requestedLevel, err |-> ""]

\* CompressionHandler.resolveCompressionLevel: the level and the error it
\* returns
resolveCompressionLevel(requestedLevel, p) ==
    IF requestedLevel # "" THEN [level |-> requestedLevel, err |-> ""]
    ELSE IF GetPreferences(p).err
    THEN [level |-> DefaultCompressionLevel, err |-> ""]
    ELSE IF GetPreferences(p).nil
    THEN [level |-> DefaultCompressionLevel, err |-> ""]
    ELSE [level |-> p.DefaultCompressionLevel, err |-> ""]

(* ------------------------ options and arguments ------------------------ *)
(* request.AdvancedOptions points to one CompressionOptions object that all  *)
(* workers of the batch receive. A string field of the object is two words   *)
(* of memory, the data pointer and the length, stored one after the other;   *)
(* ptr is the text the pointer points to ("" for the nil pointer).           *)
(* ConvertToGrayscale, the one field the workers only read, is the variable  *)
(* of that name.                                                             *)

\* the two words of a string holding s (the version strings have 3 bytes)
Str(s) == [ptr |-> s, len |-> IF s = "" THEN 0 ELSE 3]

\* what reading the two words gives when the pointer is nil and the length
\* is not zero: the read faults (nil pointer dereference, unrecovered panic)
Torn == "<nil pointer dereference>"

\* reading a string from its two words
ReadString(m) == IF m.len = 0 THEN "" ELSE IF m.ptr = "" THEN Torn ELSE m.ptr

\* DefaultCompressionOptions()
DefaultCompressionOptions ==
    [nil |-> FALSE, ImageDPI |-> 150, ImageQuality |-> 85,
     PDFVersion |-> Str("1.4"), RemoveMetadata |-> FALSE, EmbedFonts |-> TRUE,
     GenerateThumbnails |-> FALSE]

\* request.AdvancedOptions == nil
NilOptions ==
    [nil |-> TRUE, ImageDPI |-> 0, ImageQuality |-> 0, PDFVersion |-> Str(""),
     RemoveMetadata |-> FALSE, EmbedFonts |-> FALSE, GenerateThumbnails |-> FALSE]

\* the options object after "if options == nil" and the three defaulting
\* tests of CompressPDFWithProgress, run without interference: a nil pointer
\* stays nil (the defaults go to a local copy), empty or non-positive fields
\* of the shared object are overwritten
SetDefaults(o) ==
    IF o.nil THEN o
    ELSE [o EXCEPT !.PDFVersion = IF @.len = 0 THEN Str("1.4") ELSE @,
                   !.ImageDPI = IF @ <= 0 THEN 150 ELSE @,
                   !.ImageQuality = IF @ <= 0 THEN 85 ELSE @]

\* the options the argument builder reads: the local defaults for a nil
\* pointer, the shared object otherwise
OptionsRead(o) == IF o.nil THEN DefaultCompressionOptions ELSE o

\* variant: an unknown level is compressed hardest
PdfSettingsStrict(compressionLevel) ==
    IF compressionLevel = "aggressive" THEN "/ebook"
    ELSE IF compressionLevel = "good_enough" THEN "/printer"
    ELSE "/screen"

\* the switch on compressionLevel
PdfSettings(compressionLevel) ==
    IF compressionLevel = "ultra" THEN "/screen"
    ELSE IF compressionLevel = "aggressive" THEN "/ebook"
    ELSE "/printer"

\* fmt.Sprintf("%t", b)
FormatBool(b) == IF b THEN "true" ELSE "false"

\* the literal of "args := []string{...}"; an argument is the sequence of the
\* pieces it is concatenated from
FixedArgs(compressionLevel, version, dpi, embedFonts) ==
    << <<"-sDEVICE=pdfwrite">>,
       <<"-dPDFSETTINGS=", PdfSettings(compressionLevel)>>,
       <<"-dCompatibilityLevel=", version>>,
       <<"-dNOPAUSE">>,
       <<"-dQUIET">>,
       <<"-dBATCH">>,
       <<"-dAutoRotatePages=/None">>,
       <<"-dColorImageDownsampleType=/Bicubic">>,
       <<"-dColorImageResolution=", ToString(dpi)>>,
       <<"-dGrayImageDownsampleType=/Bicubic">>,
       <<"-dGrayImageResolution=", ToString(dpi)>>,
       <<"-dMonoImageDownsampleType=/Bicubic">>,
       <<"-dMonoImageResolution=", ToString(dpi)>>,
       <<"-dColorConversionStrategy=/sRGB">>,
       <<"-dEmbedAllFonts=", FormatBool(embedFonts)>>,
       <<"-dSubsetFonts=true">>,
       <<"-dOptimize=true">>,
       <<"-dDownsampleColorImages=true">>,
       <<"-dDownsampleGrayImages=true">>,
       <<"-dDownsampleMonoImages=true">> >>

\* the three conditional appends
ConditionalArgs(compressionLevel, removeMetadata, generateThumbnails) ==
    (IF compressionLevel = "ultra"
     THEN << <<"-dCompressFonts=true">>, <<"-dCompressStreams=true">> >>
     ELSE << >>)
      \o (IF removeMetadata THEN << <<"-dPDFX">>, <<"-dUseCIEColor">> >> ELSE << >>)
      \o (IF generateThumbnails THEN << <<"-dGenerateThumbnails=true">> >>
          ELSE << >>)

\* variant: the conditional flags go after the paths
BuildArgsFlagsLast(compressionLevel, o, outputPath, actualInputPath) ==
    FixedArgs(compressionLevel, o.PDFVersion, o.ImageDPI, o.EmbedFonts)
      \o << <<"-sOutputFile=">> \o outputPath, actualInputPath >>
      \o ConditionalArgs(compressionLevel, o.RemoveMetadata, o.GenerateThumbnails)

\* the argument vector of the main Ghostscript process, from the option
\* values o the builder read (a path is a sequence of tokens already)
BuildArgs(compressionLevel, o, outputPath, actualInputPath) ==
    FixedArgs(compressionLevel, o.PDFVersion, o.ImageDPI, o.EmbedFonts)
      \o ConditionalArgs(compressionLevel, o.RemoveMetadata, o.GenerateThumbnails)
      \o << <<"-sOutputFile=">> \o outputPath, actualInputPath >>

\* no argument builder has run for the work item
NoBuild ==
    [made |-> FALSE, compressionLevel |-> "", PDFVersion |-> "", ImageDPI |-> 0,
     EmbedFonts |-> FALSE, RemoveMetadata |-> FALSE,
     GenerateThumbnails |-> FALSE, outputPath |-> <<>>,
     actualInputPath |-> <<>>]

\* what the argument builder of a work item read: the level it was called
\* with, the fields of the options o, and the two paths
BuildOf(level, version, o, outputPath, actualInputPath) ==
    [made |-> TRUE, compressionLevel |-> level, PDFVersion |-> version,
     ImageDPI |-> o.ImageDPI, EmbedFonts |-> o.EmbedFonts,
     RemoveMetadata |-> o.RemoveMetadata,
     GenerateThumbnails |-> o.GenerateThumbnails, outputPath |-> outputPath,
     actualInputPath |-> actualInputPath]

\* the args the builder made of what it read
ArgsOf(b) == BuildArgs(b.compressionLevel, b, b.outputPath, b.actualInputPath)

(* ---------------------------- auto-download ---------------------------- *)

\* the Downloads folder of the user's home directory
HomeDownloads == <<"home", "/", "Downloads">>

\* PreferencesService.GetDownloadFolder
GetDownloadFolder(p) ==
    IF p.err THEN [dir |-> <<>>, err |-> TRUE]
    ELSE [dir |-> IF p.DefaultDownloadFolder # <<>> THEN p.DefaultDownloadFolder
                  ELSE HomeDownloads,
          err |-> FALSE]

\* faults of the environment during a copy: none, the destination cannot be
\* made (os.MkdirAll or os.Create fails), or io.Copy fails after os.Create
CopyFaults == {"none", "create", "copy"}

\* CopyFile(src, dst) in a file system holding the paths "files", src holding
\* size bytes: whether it fails, the paths that exist afterwards, and the
\* bytes dst holds afterwards. os.Create truncates dst before io.Copy reads
\* src, so a file copied onto itself is read empty.
CopyFile(src, dst, size, files, fault) ==
    IF src \notin files \/ fault = "create"
    THEN [err |-> TRUE, files |-> files, created |-> FALSE, bytes |-> 0]
    ELSE [err |-> fault = "copy", files |-> files \cup {dst}, created |-> TRUE,
          bytes |-> IF fault = "copy" \/ src = dst THEN 0 ELSE size]

\* FilesHandler.SaveFileToDownloadFolder(result, customDownloadFolder): the
\* path and error it returns, the file system it leaves, and the record of
\* the call
SaveFileToDownloadFolder(result, customDownloadFolder, p, files, fault) ==
    LET folder == IF customDownloadFolder # <<>>
                  THEN [dir |-> customDownloadFolder, err |-> FALSE]
                  ELSE GetDownloadFolder(p)
        downloadPath == Join(folder.dir, result.CompressedFilename)
        c == CopyFile(result.TempPath, downloadPath, result.CompressedSize,
                      files, fault)
    IN  IF folder.err
        THEN [path |-> <<>>, err |-> TRUE, files |-> files,
              call |-> [FileID |-> result.FileID, src |-> result.TempPath,
                        dst |-> <<>>, err |-> TRUE, created |-> FALSE,
                        bytes |-> 0]]
        ELSE [path |-> IF c.err THEN <<>> ELSE downloadPath, err |-> c.err,
              files |-> c.files,
              call |-> [FileID |-> result.FileID, src |-> result.TempPath,
                        dst |-> downloadPath, err |-> c.err,
                        created |-> c.created, bytes |-> c.bytes]]

\* the auto-download loop from position i of the results on; st holds the
\* results, the file system, the download paths and the calls so far
RECURSIVE AutoDownloadLoop(_, _, _, _, _)
AutoDownloadLoop(i, folder, p, faults, st) ==
    IF i > Len(st.results) THEN st
    ELSE LET s == SaveFileToDownloadFolder(st.results[i], folder, p, st.files,
                                           faults[i])
         IN  AutoDownloadLoop(i + 1, folder, p, faults,
                 IF s.err
                 THEN [st EXCEPT !.files = s.files,
                                 !.calls = Append(@, s.call)]
                 ELSE [results |-> [st.results EXCEPT ![i].SavedPath = s.path],
                       files |-> s.files,
                       downloadPaths |-> Append(st.downloadPaths, s.path),
                       calls |-> Append(st.calls, s.call)])

(* ----------------------------- work ids -------------------------------- *)

\* time.Now().UnixNano() read after a read that returned last: a clock finer
\* than the time between two reads has advanced, a coarse one may not have
UnixNano(last, coarse) == IF coarse THEN {last, last + 1} ELSE {last + 1}

\* fmt.Sprintf("%d", n) for the clock readings 0..MaxFiles of a batch
Sprintf == [n \in 0..MaxFiles |-> ToString(n)]

\* GenerateUUID: the clock reading printed with "%d"
GenerateUUID(nano) == Sprintf[nano]

\* the readings n successive GenerateUUID() calls can get from the clock
ClockReads(n, coarse) ==
    {q \in [1..n -> 0..n] :
        \A i \in 1..n : q[i] \in UnixNano(IF i = 1 THEN 0 ELSE q[i - 1], coarse)}

(* ------------------------------ state ---------------------------------- *)

VARIABLES
    Files,              \* request.Files
    ConvertToGrayscale, \* request.AdvancedOptions.ConvertToGrayscale
    GhostscriptPath,    \* config.GhostscriptPath ("" when no engine was resolved)
    NumCPU,             \* runtime.NumCPU()
    nanos,              \* what the nanosecond clock reads at each GenerateUUID() call
    request,            \* the CompressionRequest as it was passed (AdvancedOptions:
                        \* the object it points to, as it was at the call)
    prefs,              \* the stored user preferences, as the PreferencesService reads them
    ctxDone,            \* the context passed to CompressPDFWithContext is cancelled
    now,                \* the wall clock when it was last read
    fs,                 \* paths that exist in the file system
    mainPC,             \* position of the goroutine running CompressPDFWithContext
    totalFiles,         \* len(request.Files)
    maxConcurrency,     \* min(NumCPU, MaxConcurrencyLimit)
    workChan,           \* buffered channel of work items (closed once filled)
    resultChan,         \* buffered channel of *FileResult
    resultClosed,       \* close(resultChan) has run
    completedCount,     \* number of values sent on the completedCount channel
    wg,                 \* sync.WaitGroup counter
    wpc,                \* position of each worker goroutine
    wjob,               \* the work item a worker holds (0: none)
    wout,               \* compressedPath of the job a worker processes
    wtmp,               \* tempGrayscalePath of the job a worker processes
    statusEvents,       \* per work item, the file:progress statuses emitted
    progressEvents,     \* the compression:progress events emitted
    results,            \* the caller's results slice
    completed,          \* the caller's completed counter
    totals,             \* the caller's totalOriginalSize and totalCompressedSize
    statsUpdates,       \* the AppStats carried by the stats:update events emitted
    response,           \* the CompressionResponse returned
    saveCalls,          \* the SaveFileToDownloadFolder calls made, with what they copied
    grayCalls,          \* per work item, grayscale-stage processes started
    gsCalls,            \* per work item, main Ghostscript processes started
    gsExit,             \* per work item, how its last engine process ended
    gsInput,            \* per work item, the input path of its main Ghostscript process
    builds,             \* per work item in compression, what the builder of args read
    options,            \* the CompressionOptions object request.AdvancedOptions points to
    atCancel,           \* what the batch looked like when cancellation was signalled
    extractDir,         \* what os.TempDir()/kleinpdf-ghostscript holds
    BundledAssets,      \* config.BundledAssets: the embedded bundled/ghostscript.tar.gz
    shareRoot,          \* what <base>/share/ghostscript is and holds
    gsLibPaths,         \* the paths discoverGhostscriptResourcePaths returned
    updateCall,         \* the last UpdatePreferences call: its map, what was stored
                        \* before it, and the error it returned
    mstats,             \* the AppStats object m.stats points to
    callers,            \* the goroutines inside StatsManager.UpdateStats
    op                  \* the operation outside a batch that has run ("": none)

vars == <<wpc, mainPC, workChan, resultChan, resultClosed, ctxDone, wg, wjob,
          wout, wtmp, completedCount, statusEvents, progressEvents, results,
          completed, totals, statsUpdates, response, saveCalls, grayCalls,
          gsCalls, gsExit, gsInput, builds, options, atCancel, now, fs,
          totalFiles, maxConcurrency, Files, ConvertToGrayscale,
          GhostscriptPath, NumCPU, nanos, request, prefs, extractDir,
          BundledAssets, shareRoot, gsLibPaths, updateCall, mstats, callers, op>>

reqVars == <<Files, ConvertToGrayscale, GhostscriptPath, NumCPU, nanos, request,
             prefs, extractDir, BundledAssets, shareRoot, gsLibPaths, updateCall,
             mstats, callers, op>>
workerVars == <<wpc, wjob, wout, wtmp>>
mainVars == <<mainPC, totalFiles, maxConcurrency, progressEvents, results,
              completed, totals, statsUpdates, response, saveCalls>>

\* the ID of each work item of fileWorkItems: one GenerateUUID() per file
fileIDs == [i \in 1..Len(nanos) |-> GenerateUUID(nanos[i])]

\* the caller's compressionLevel, once resolved
compressionLevel == resolveCompressionLevel(request.CompressionLevel, prefs).level

\* the caller's running sums
totalOriginalSize == totals.orig
totalCompressedSize == totals.comp

Jobs == 1..MaxFiles
Workers == 0..(MaxFiles - 1)

\* position of an input path in the listing order of a directory
PathRank(p) == IF ".pdf" \in {p[i] : i \in 1..Len(p)} THEN 1 ELSE 2

\* file lists of length 0..MaxFiles, the files in listing order (repeats
\* allowed)
FileLists ==
    {fl \in UNION {[1..n -> InputPaths] : n \in 0..MaxFiles} :
        \A i \in 1..(Len(fl) - 1) : PathRank(fl[i]) <= PathRank(fl[i + 1])}

NoResponse == [Returned |-> FALSE]

\* &AppStats{} of NewStatsManager
NoStats == [SessionFilesCompressed |-> 0, SessionDataSaved |-> 0,
            TotalFilesCompressed |-> 0, TotalDataSaved |-> 0]

\* the AppStats of the StatsManager
stats == IF statsUpdates = <<>> THEN NoStats ELSE statsUpdates[Len(statsUpdates)]

\* number of stats:update events emitted
statsEmits == Len(statsUpdates)

\* DefaultPreferences(): what a fresh installation has stored
DefaultPreferences ==
    [err |-> FALSE, DefaultCompressionLevel |-> DefaultCompressionLevel,
     DefaultDownloadFolder |-> <<>>]

\* a request that names no profile and asks for no download; its options
\* leave no field to be defaulted
PlainRequest ==
    [CompressionLevel |-> "", AutoDownload |-> FALSE, DownloadFolder |-> <<>>,
     AdvancedOptions |-> DefaultCompressionOptions]

\* an empty directory tree under os.TempDir()/kleinpdf-ghostscript: gs is the
\* file ghostscript/bin/gs ("absent", "noexec": no execute bit, or "exec"),
\* lib and share tell that the directories ghostscript/lib and
\* ghostscript/share/ghostscript exist, exists that the directory itself does
NoExtractDir == [exists |-> FALSE, gs |-> "absent", lib |-> FALSE, share |-> FALSE]

\* no share root
NoShareRoot == [kind |-> "absent", entries |-> {}]

\* no UpdatePreferences call has been made
NoUpdateCall == [called |-> FALSE, data |-> <<>>, before |-> <<>>, err |-> FALSE]

\* an embedded archive that cannot be read
NoArchive == [readable |-> FALSE, entries |-> <<>>]

\* the state of what a batch call does not touch when only batch calls run
NoOtherOperation ==
    /\ extractDir = NoExtractDir
    /\ BundledAssets = NoArchive
    /\ shareRoot = NoShareRoot
    /\ gsLibPaths = <<>>
    /\ updateCall = NoUpdateCall
    /\ mstats = NoStats
    /\ callers = <<>>
    /\ op = ""

\* the locals, channels and outputs of a call of CompressPDFWithContext that
\* has not started
CallNotStarted ==
    /\ options = request.AdvancedOptions
    /\ saveCalls = <<>>
    /\ ctxDone = FALSE
    /\ now = 0
    /\ fs = {Files[i] : i \in 1..Len(Files)}
    /\ mainPC = "start"
    /\ totalFiles = 0
    /\ maxConcurrency = 0
    /\ workChan = <<>>
    /\ resultChan = <<>>
    /\ resultClosed = FALSE
    /\ completedCount = 0
    /\ wg = 0
    /\ wpc = [w \in Workers |-> "idle"]
    /\ wjob = [w \in Workers |-> 0]
    /\ wout = [w \in Workers |-> <<>>]
    /\ wtmp = [w \in Workers |-> <<>>]
    /\ statusEvents = [j \in Jobs |-> <<>>]
    /\ progressEvents = <<>>
    /\ results = <<>>
    /\ completed = 0
    /\ totals = [orig |-> 0, comp |-> 0]
    /\ statsUpdates = <<>>
    /\ response = NoResponse
    /\ grayCalls = [j \in Jobs |-> 0]
    /\ gsCalls = [j \in Jobs |-> 0]
    /\ gsExit = [j \in Jobs |-> "none"]
    /\ gsInput = [j \in Jobs |-> <<>>]
    /\ builds = [j \in Jobs |-> NoBuild]
    /\ atCancel = [signalled |-> FALSE, claimed |-> {}, inEngine |-> {}]

\* the state in which CompressPDFWithContext is called with the request, but
\* for the clock: nothing has run yet
BeforeCall == NoOtherOperation /\ CallNotStarted

\* no batch call is made: the state of a service that is only asked for
\* operations outside a batch
NoCall ==
    /\ Files = <<>>
    /\ request = PlainRequest
    /\ ConvertToGrayscale = FALSE
    /\ NumCPU = 1
    /\ nanos = <<>>
    /\ CallNotStarted

\* what only a batch call reads or writes
callVars == <<wpc, wjob, wout, wtmp, mainPC, totalFiles, maxConcurrency,
              progressEvents, results, completed, totals, response, saveCalls,
              workChan, resultChan, resultClosed, completedCount, wg,
              statusEvents, grayCalls, gsCalls, gsExit, gsInput, builds, options,
              atCancel, ctxDone, now, Files, ConvertToGrayscale, NumCPU, nanos,
              request>>

\* the state in which CompressPDFWithContext is called with PlainRequest on a
\* fresh installation, whatever the clock
InitCall ==
    /\ Files \in FileLists
    /\ request = PlainRequest
    /\ prefs = DefaultPreferences
    /\ ConvertToGrayscale \in BOOLEAN
    /\ GhostscriptPath \in {"", "gs"}
    /\ NumCPU \in CPUChoices
    /\ BeforeCall

\* a call on a machine whose nanosecond clock advances between any two reads
Init == InitCall /\ nanos \in ClockReads(Len(Files), FALSE)

\* a call on any machine: two successive reads of the clock may coincide
InitAnyClock ==
    InitCall /\ \E coarse \in BOOLEAN : nanos \in ClockReads(Len(Files), coarse)

(* ------------------------- the environment ----------------------------- *)

\* jobs whose worker has passed the cancellation check of the work loop
Claimed == {j \in Jobs : Len(statusEvents[j]) >= 2}

\* jobs whose engine process (grayscale stage or main) is running
InEngine == {wjob[w] : w \in {v \in Workers : wpc[v] \in {"gray", "gs"}}}

\* the owner of the context cancels it while the call is in progress
Cancel ==
    /\ mainPC # "returned"
    /\ ~ctxDone
    /\ ctxDone' = TRUE
    /\ atCancel' = [signalled |-> TRUE, claimed |-> Claimed, inEngine |-> InEngine]
    /\ UNCHANGED <<reqVars, now, fs, mainVars, workChan, resultChan, resultClosed,
                   completedCount, wg, workerVars, statusEvents, grayCalls,
                   gsCalls, gsExit, gsInput, builds, options>>

(* ---------------- CompressPDFWithContext: the caller ------------------- *)

ErrNoFilesProvided == "no files provided for compression"
ErrCanceled == "context canceled"
ErrNoGhostscript == "Ghostscript not found"
ErrGrayscale == "grayscale conversion failed"
ErrGhostscript == "ghostscript failed"
ErrNoOutput == "ghostscript did not create output file"
ErrStat == "stat: no such file or directory"
ErrResolveLevel == "failed to resolve compression level"

\* the text of an error message, word by word (the punctuation apart)
ErrorText(err) ==
    IF err = ErrNoGhostscript
    THEN <<"Ghostscript", "not", "found", ".", "Please", "install", "Ghostscript",
           "to", "use", "this", "application">>
    ELSE <<err>>

\* containsInMiddle(s, substr) of the tests: the occurrences that start after
\* the first position
containsInMiddle(s, substr) ==
    \E i \in 1..(Len(s) - Len(substr)) : SubSeq(s, i + 1, i + Len(substr)) = substr

\* contains(s, substr) of the tests, on texts taken word by word
contains(s, substr) ==
    /\ Len(s) >= Len(substr)
    /\ \/ s = substr
       \/ Len(substr) = 0
       \/ /\ Len(s) > Len(substr)
          /\ \/ SubSeq(s, 1, Len(substr)) = substr
             \/ SubSeq(s, Len(s) - Len(substr) + 1, Len(s)) = substr
             \/ containsInMiddle(s, substr)

\* CompressionResponse{Success: false, Error: err}
FailedResponse(err) ==
    [Returned |-> TRUE, Success |-> FALSE, Error |-> err, Files |-> <<>>,
     TotalFiles |-> 0, TotalOriginalSize |-> 0, TotalCompressedSize |-> 0,
     OverallCompressionRatio |-> FloatZero, CompressionLevel |-> "",
     AutoDownload |-> FALSE, DownloadPaths |-> <<>>]

\* variant: a batch with a failed file reports failure
BuildResponseFailFast(rs, orig, comp) ==
    [Returned |-> TRUE,
     Success |-> \A i \in 1..Len(rs) : rs[i].Status # "error",
     Error |-> "", Files |-> rs, TotalFiles |-> Len(rs),
     TotalOriginalSize |-> orig, TotalCompressedSize |-> comp,
     OverallCompressionRatio |-> RatioPercent(orig, comp),
     CompressionLevel |-> compressionLevel,
     AutoDownload |-> request.AutoDownload, DownloadPaths |-> <<>>]

\* the response of a batch that was dispatched, before the auto-download
BuildResponse(rs, orig, comp) ==
    [Returned |-> TRUE, Success |-> TRUE, Error |-> "", Files |-> rs,
     TotalFiles |-> Len(rs),
     TotalOriginalSize |-> orig, TotalCompressedSize |-> comp,
     OverallCompressionRatio |-> RatioPercent(orig, comp),
     CompressionLevel |-> compressionLevel,
     AutoDownload |-> request.AutoDownload, DownloadPaths |-> <<>>]

\* variant: one worker per file, whatever the concurrency limit
WorkerCountAll(maxc, n) == n

\* the number of worker goroutines the start loop creates
WorkerCount(maxc, n) == Min(maxc, n)

\* variant: a request without files is dispatched like any other
NoFilesProvidedNever(files) == FALSE

\* the validation of the request: TRUE when it holds no file
NoFilesProvided(files) == Len(files) = 0

\* validation of the request, resolution of the compression level, the
\* concurrency limit, and the loop that makes one work item per file, with the
\* ID GenerateUUID() makes of the clock reading
Validate ==
    /\ mainPC = "start"
    /\ IF NoFilesProvided(Files)
       THEN /\ response' = FailedResponse(ErrNoFilesProvided)
            /\ mainPC' = "returned"
            /\ UNCHANGED <<totalFiles, maxConcurrency>>
       ELSE IF resolveCompressionLevel(request.CompressionLevel, prefs).err # ""
       THEN /\ response' = FailedResponse(ErrResolveLevel)
            /\ mainPC' = "returned"
            /\ UNCHANGED <<totalFiles, maxConcurrency>>
       ELSE /\ totalFiles' = Len(Files)
            /\ maxConcurrency' = Min(NumCPU, MaxConcurrencyLimit)
            /\ mainPC' = "fill"
            /\ UNCHANGED response
    /\ UNCHANGED <<reqVars, ctxDone, now, fs, workChan, resultChan, resultClosed,
                   completedCount, wg, workerVars, statusEvents, progressEvents,
                   results, completed, totals, statsUpdates, saveCalls,
                   grayCalls, gsCalls, gsExit, gsInput, builds, options, atCancel>>

\* variant: channels that hold one value
ChanCapOne(n) == 1

\* the capacity of make(chan T, totalFiles): workChan, resultChan and
\* completedCount
ChanCap(n) == n

\* variant: the work item is sent without a "queued" event
QueuedEventNone(evs) == evs

\* the "queued" file:progress event of the fill loop
QueuedEvent(evs) == Append(evs, "queued")

\* one iteration of the loop that fills the work channel
Enqueue ==
    /\ mainPC = "fill"
    /\ Len(workChan) < totalFiles
    /\ LET j == Len(workChan) + 1
       IN  /\ workChan' = Append(workChan, j)
           /\ statusEvents' = [statusEvents EXCEPT ![j] = QueuedEvent(@)]
    /\ UNCHANGED <<reqVars, ctxDone, now, fs, mainVars, resultChan, resultClosed,
                   completedCount, wg, workerVars, grayCalls, gsCalls, gsExit,
                   gsInput, builds, options, atCancel>>

\* close(workChan), then the loop that starts the workers and the goroutine
\* that waits for them
StartWorkers ==
    /\ mainPC = "fill"
    /\ Len(workChan) = totalFiles
    /\ LET n == WorkerCount(maxConcurrency, totalFiles)
       IN  /\ wpc' = [w \in Workers |-> IF w < n THEN "recv" ELSE "idle"]
           /\ wg' = n
    /\ mainPC' = "drain"
    /\ UNCHANGED <<reqVars, ctxDone, now, fs, totalFiles, maxConcurrency,
                   progressEvents, results, completed, totals, statsUpdates,
                   response, saveCalls, workChan, resultChan, resultClosed,
                   completedCount, wjob, wout, wtmp,
                   statusEvents, grayCalls, gsCalls, gsExit, gsInput, builds, options, atCancel>>

\* go func() { wg.Wait(); close(resultChan); close(completedCount) }()
WaitAndClose ==
    /\ mainPC = "drain"
    /\ wg = 0
    /\ ~resultClosed
    /\ resultClosed' = TRUE
    /\ UNCHANGED <<reqVars, ctxDone, now, fs, mainVars, workChan, resultChan,
                   completedCount, wg, workerVars, statusEvents, grayCalls,
                   gsCalls, gsExit, gsInput, builds, options, atCancel>>

\* variant: the totals keep the sizes of the last completed result only
AccumulateLast(tot, r) ==
    IF r.Status = "completed"
    THEN [orig |-> r.OriginalSize, comp |-> r.CompressedSize]
    ELSE tot

\* variant: only the first completed result to arrive is counted
AccumulateFirst(tot, r) ==
    IF r.Status = "completed" /\ tot = [orig |-> 0, comp |-> 0]
    THEN [orig |-> r.OriginalSize, comp |-> r.CompressedSize]
    ELSE tot

\* the totals of the drain loop after one more result
Accumulate(tot, r) ==
    IF r.Status = "completed"
    THEN [orig |-> tot.orig + r.OriginalSize, comp |-> tot.comp + r.CompressedSize]
    ELSE tot

\* variant: the event is emitted before the counter is incremented
OverallProgressStale(c, t) ==
    [num |-> (c - 1) * 100, den |-> t, current |-> c - 1, total |-> t, file |-> ""]

\* the compression:progress event of the drain loop, emitted with the counter
\* at c: percent is the quotient num/den
OverallProgress(c, t) ==
    [num |-> c * 100, den |-> t, current |-> c, total |-> t, file |-> ""]

\* the compression:progress event emitted after the drain loop
FinalProgress(t) ==
    << [num |-> 100, den |-> 1, current |-> t, total |-> t, file |-> "Complete"] >>

\* one iteration of "for result := range resultChan"
Collect ==
    /\ mainPC = "drain"
    /\ resultChan # <<>>
    /\ results' = Append(results, Head(resultChan))
    /\ resultChan' = Tail(resultChan)
    /\ totals' = Accumulate(totals, Head(resultChan))
    /\ completed' = completed + 1
    /\ progressEvents' = Append(progressEvents,
                                OverallProgress(completed + 1, totalFiles))
    /\ UNCHANGED <<reqVars, ctxDone, now, fs, mainPC, totalFiles,
                   maxConcurrency, statsUpdates, response, saveCalls, workChan,
                   resultClosed, completedCount, wg, workerVars, statusEvents,
                   grayCalls, gsCalls, gsExit, gsInput, builds, options, atCancel>>

\* the AppStats after StatsManager.UpdateStats(filesCompressed, dataSaved)
UpdateStats(st, filesCompressed, dataSaved) ==
    [SessionFilesCompressed |-> st.SessionFilesCompressed + filesCompressed,
     SessionDataSaved |-> st.SessionDataSaved + dataSaved,
     TotalFilesCompressed |-> st.TotalFilesCompressed + filesCompressed,
     TotalDataSaved |-> st.TotalDataSaved + dataSaved]

\* the result channel is closed and empty: final progress event, overall
\* ratio, statistics update (with its stats:update event), response and, when
\* the request asks for it, the auto-download loop over the results
Respond ==
    /\ mainPC = "drain"
    /\ resultChan = <<>>
    /\ resultClosed
    /\ progressEvents' = progressEvents \o FinalProgress(totalFiles)
    /\ statsUpdates' = Append(statsUpdates,
                              UpdateStats(stats, Len(results),
                                          totalOriginalSize - totalCompressedSize))
    /\ IF request.AutoDownload
       THEN \E faults \in [1..Len(results) -> CopyFaults] :
               LET st == AutoDownloadLoop(1, request.DownloadFolder, prefs, faults,
                             [results |-> results, files |-> fs,
                              downloadPaths |-> <<>>, calls |-> <<>>])
               IN  /\ results' = st.results
                   /\ fs' = st.files
                   /\ saveCalls' = saveCalls \o st.calls
                   /\ response' =
                          [BuildResponse(st.results, totalOriginalSize,
                                         totalCompressedSize)
                              EXCEPT !.DownloadPaths = st.downloadPaths]
       ELSE /\ response' = BuildResponse(results, totalOriginalSize,
                                         totalCompressedSize)
            /\ UNCHANGED <<results, fs, saveCalls>>
    /\ mainPC' = "returned"
    /\ UNCHANGED <<reqVars, ctxDone, now, totalFiles, maxConcurrency,
                   completed, totals, workChan, resultChan, resultClosed,
                   completedCount, wg,
                   workerVars, statusEvents, grayCalls, gsCalls, gsExit, gsInput, builds, options,
                   atCancel>>

(* --------------------------- the workers ------------------------------- *)

\* variant: the work loop does not look at the context
LoopSelectNever(done) == FALSE

\* the select on ctx.Done() at the head of the work loop: TRUE when the
\* worker takes the cancelled branch
LoopSelect(done) == done

\* variant: no look at the context before the compression
PrecheckSelectNever(done) == FALSE

\* the select on ctx.Done() of processSingleFileWithProgress, before the
\* compression
PrecheckSelect(done) == done

\* variant: a worker leaves without wg.Done()
WgDoneLost(n) == n

\* the deferred wg.Done() of a worker
WgDone(n) == n - 1

\* time.Now(): the clock never runs backwards between two reads
TimeNow(last) == last..MaxTime

\* variant: a received work item stays in the channel
ReceivePeek(ch) == ch

\* the channel after "work := <-workChan" has taken its first item
Receive(ch) == Tail(ch)

\* one turn of the work loop: "for work := range workChan" takes a work item
\* or leaves when the closed channel is empty (deferred wg.Done); with an item
\* the select on ctx.Done() leaves too, dropping the item, or falls through to
\* processSingleFileWithProgress, which emits "compressing" and computes the
\* output path from the clock
WorkerRecv(w) ==
    /\ wpc[w] = "recv"
    /\ IF workChan = <<>>
       THEN /\ wpc' = [wpc EXCEPT ![w] = "done"]
            /\ wg' = WgDone(wg)
            /\ UNCHANGED <<wjob, workChan, wout, statusEvents, now>>
       ELSE /\ workChan' = Receive(workChan)
            /\ IF LoopSelect(ctxDone)
               THEN /\ wpc' = [wpc EXCEPT ![w] = "done"]
                    /\ wg' = WgDone(wg)
                    /\ UNCHANGED <<wjob, wout, statusEvents, now>>
               ELSE /\ wjob' = [wjob EXCEPT ![w] = Head(workChan)]
                    /\ statusEvents' = [statusEvents EXCEPT ![Head(workChan)] =
                                            Append(@, "compressing")]
                    /\ now' \in TimeNow(now)
                    /\ wout' = [wout EXCEPT ![w] = CompressedPath(Files[Head(workChan)], now')]
                    /\ wpc' = [wpc EXCEPT ![w] = "precheck"]
                    /\ UNCHANGED wg
    /\ UNCHANGED <<reqVars, ctxDone, fs, mainVars, resultChan, resultClosed,
                   completedCount, wtmp, grayCalls, gsCalls, gsExit, gsInput, builds, options, atCancel>>

\* the errorResult a worker sends for a work item that failed
ErrorResult(id, err) ==
    [FileID |-> id, Status |-> "error", Error |-> err, OriginalSize |-> 0,
     CompressedSize |-> 0, CompressionRatio |-> FloatZero,
     CompressedFilename |-> <<>>, TempPath |-> <<>>, SavedPath |-> <<>>]

\* the FileResult of processSingleFileWithProgress, marked "completed" by the
\* worker
CompletedResult(id, originalSize, compressedSize, compressedPath) ==
    [FileID |-> id, Status |-> "completed", Error |-> "",
     OriginalSize |-> originalSize, CompressedSize |-> compressedSize,
     CompressionRatio |-> RatioPercent(originalSize, compressedSize),
     CompressedFilename |-> Base(compressedPath), TempPath |-> compressedPath,
     SavedPath |-> <<>>]

\* the worker's handling of what processSingleFileWithProgress returned after
\* emitting the status events "emitted": the final status event, the
\* FileResult sent on resultChan, the count sent on completedCount, and back
\* to the head of the work loop; the locals of the call are gone
Deliver(w, emitted, err) ==
    LET j == wjob[w]
        st == IF err = "" THEN "completed" ELSE "error"
        res == IF err = ""
               THEN CompletedResult(fileIDs[j], SizeOf(Files[j]), SizeOf(wout[w]),
                                    wout[w])
               ELSE ErrorResult(fileIDs[j], err)
    IN  /\ statusEvents' = [statusEvents EXCEPT ![j] = Append(@ \o emitted, st)]
        /\ resultChan' = Append(resultChan, res)
        /\ completedCount' = completedCount + 1
        /\ wpc' = [wpc EXCEPT ![w] = "recv"]
        /\ wjob' = [wjob EXCEPT ![w] = 0]
        /\ wout' = [wout EXCEPT ![w] = <<>>]
        /\ wtmp' = [wtmp EXCEPT ![w] = <<>>]
        /\ builds' = [builds EXCEPT ![j] = NoBuild]

\* variant: the main Ghostscript process always reads the original
ActualInputPathOriginal(gray, inputPath, tempGrayscalePath) == inputPath

\* the input path of the main Ghostscript process
ActualInputPath(gray, inputPath, tempGrayscalePath) ==
    IF gray THEN tempGrayscalePath ELSE inputPath

\* the goroutine that reads a torn string faults; nothing recovers the panic,
\* the process exits and all its goroutines with it
Crash ==
    /\ mainPC' = "crashed"
    /\ wpc' = [v \in Workers |-> "crashed"]

\* the switch and the argument list of CompressPDFWithProgress, read from the
\* options o, and the start of the main Ghostscript process
StartMain(w, o) ==
    LET j == wjob[w]
        version == ReadString(o.PDFVersion)
        actualInputPath == ActualInputPath(ConvertToGrayscale, Files[j], wtmp[w])
    IN  IF version = Torn
        THEN /\ Crash
             /\ UNCHANGED <<gsCalls, gsInput, builds>>
        ELSE /\ wpc' = [wpc EXCEPT ![w] = "gs"]
             /\ gsCalls' = [gsCalls EXCEPT ![j] = @ + 1]
             /\ gsInput' = [gsInput EXCEPT ![j] = actualInputPath]
             /\ builds' = [builds EXCEPT ![j] =
                               BuildOf(compressionLevel, version, o, wout[w],
                                       actualInputPath)]
             /\ UNCHANGED mainPC

\* the first engine process of CompressPDFWithProgress: the grayscale stage
\* when it is asked for, the main process otherwise
StartEngines(w, o) ==
    IF ConvertToGrayscale
    THEN /\ wtmp' = [wtmp EXCEPT ![w] = ReplaceFirst(Files[wjob[w]])]
         /\ wpc' = [wpc EXCEPT ![w] = "gray"]
         /\ grayCalls' = [grayCalls EXCEPT ![wjob[w]] = @ + 1]
         /\ UNCHANGED <<gsCalls, gsInput, builds, mainPC>>
    ELSE /\ StartMain(w, o)
         /\ UNCHANGED <<grayCalls, wtmp>>

\* what the caller keeps while a worker runs
callerVars == <<totalFiles, maxConcurrency, progressEvents, results, completed,
                totals, statsUpdates, response, saveCalls>>

\* the select on ctx.Done() before the compression, then the entry of
\* CompressPDFWithProgress up to the start of the first engine process, the
\* defaulting of the options included
Precheck(w) ==
    /\ wpc[w] = "precheck"
    /\ IF PrecheckSelect(ctxDone)
       THEN /\ Deliver(w, <<>>, ErrCanceled)
            /\ UNCHANGED <<grayCalls, gsCalls, gsInput, options, mainPC>>
       ELSE IF GhostscriptPath = ""
       THEN /\ Deliver(w, <<>>, ErrNoGhostscript)
            /\ UNCHANGED <<grayCalls, gsCalls, gsInput, options, mainPC>>
       ELSE /\ options' = SetDefaults(options)
            /\ StartEngines(w, OptionsRead(options'))
            /\ UNCHANGED <<wjob, wout, statusEvents, resultChan, completedCount>>
    /\ UNCHANGED <<reqVars, ctxDone, now, fs, callerVars, workChan, resultClosed,
                   wg, gsExit, atCancel>>

\* the entry of CompressPDFWithProgress, one access to the shared options at
\* a time: up to the test of options.PDFVersion
EnterCompress(w) ==
    /\ wpc[w] = "precheck"
    /\ IF PrecheckSelect(ctxDone)
       THEN /\ Deliver(w, <<>>, ErrCanceled)
            /\ UNCHANGED <<grayCalls, gsCalls, gsInput, mainPC>>
       ELSE IF GhostscriptPath = ""
       THEN /\ Deliver(w, <<>>, ErrNoGhostscript)
            /\ UNCHANGED <<grayCalls, gsCalls, gsInput, mainPC>>
       ELSE IF options.nil
       THEN /\ StartEngines(w, OptionsRead(options))
            /\ UNCHANGED <<wjob, wout, statusEvents, resultChan, completedCount>>
       ELSE /\ wpc' = [wpc EXCEPT ![w] =
                           IF options.PDFVersion.len = 0 THEN "store" ELSE "numbers"]
            /\ UNCHANGED <<grayCalls, gsCalls, gsInput, builds, mainPC, wjob, wout,
                           wtmp, statusEvents, resultChan, completedCount>>
    /\ UNCHANGED <<reqVars, ctxDone, now, fs, callerVars, workChan, resultClosed,
                   wg, gsExit, atCancel, options>>

\* options.PDFVersion = "1.4": the two words of the string are stored one
\* after the other, in the order the build chose
StoreVersion(w) ==
    /\ wpc[w] \in {"store", "storeptr", "storelen"}
    /\ \E word \in {"ptr", "len"} :
          /\ wpc[w] = "storeptr" => word = "ptr"
          /\ wpc[w] = "storelen" => word = "len"
          /\ options' = [options EXCEPT !.PDFVersion =
                             IF word = "ptr" THEN [@ EXCEPT !.ptr = Str("1.4").ptr]
                             ELSE [@ EXCEPT !.len = Str("1.4").len]]
          /\ wpc' = [wpc EXCEPT ![w] =
                         IF wpc[w] # "store" THEN "numbers"
                         ELSE IF word = "ptr" THEN "storelen" ELSE "storeptr"]
    /\ UNCHANGED <<reqVars, ctxDone, now, fs, mainVars, workChan, resultChan,
                   resultClosed, completedCount, wg, wjob, wout, wtmp,
                   statusEvents, grayCalls, gsCalls, gsExit, gsInput, builds,
                   atCancel>>

\* the tests of options.ImageDPI and options.ImageQuality with their stores,
\* then the start of the first engine process
DefaultNumbers(w) ==
    /\ wpc[w] = "numbers"
    /\ options' = [options EXCEPT !.ImageDPI = IF @ <= 0 THEN 150 ELSE @,
                                  !.ImageQuality = IF @ <= 0 THEN 85 ELSE @]
    /\ StartEngines(w, options')
    /\ UNCHANGED <<reqVars, ctxDone, now, fs, callerVars, workChan, resultChan,
                   resultClosed, completedCount, wg, wjob, wout, statusEvents,
                   gsExit, atCancel>>

\* variant: the process is started with exec.CommandContext, which kills it
\* once the context is cancelled
RunEngineCtx(done) ==
    IF done THEN {[code |-> "killed", wrote |-> FALSE]}
    ELSE [code : {"zero", "nonzero"}, wrote : BOOLEAN]

\* what cmd.CombinedOutput() can report for an engine process: its exit code
\* and whether the process left a file at its output path; the process is
\* started with exec.Command, which the context does not reach
RunEngine(done) == [code : {"zero", "nonzero"}, wrote : BOOLEAN]

\* convertToGrayscale returns; on success the temp file's removal is deferred
\* and the main Ghostscript process is started on the temp file
GrayscaleExit(w) ==
    /\ wpc[w] = "gray"
    /\ LET j == wjob[w] IN
       \E r \in RunEngine(ctxDone) :
          /\ r.code = "zero" => Files[j] \in fs
          /\ fs' = IF r.wrote THEN fs \cup {wtmp[w]} ELSE fs
          /\ gsExit' = [gsExit EXCEPT ![j] = r.code]
          /\ IF r.code # "zero"
             THEN /\ Deliver(w, <<>>, ErrGrayscale)
                  /\ UNCHANGED <<gsCalls, gsInput, mainPC>>
             ELSE /\ StartMain(w, OptionsRead(options))
                  /\ UNCHANGED <<wjob, wout, wtmp, statusEvents, resultChan,
                                 completedCount>>
    /\ UNCHANGED <<reqVars, ctxDone, now, callerVars, workChan, resultClosed, wg,
                   grayCalls, options, atCancel>>

\* the main Ghostscript process returns: exit code check, output file check
\* and the deferred removal of the temp file; on success the "completed" event
\* of processSingleFileWithProgress, os.Stat of the input and of the output,
\* and the FileResult; then the worker's handling of the result
GhostscriptExit(w) ==
    /\ wpc[w] = "gs"
    /\ LET j == wjob[w]
           actualInputPath == gsInput[j]
       IN
       \E r \in RunEngine(ctxDone) :
          LET fs1 == IF r.wrote THEN fs \cup {wout[w]} ELSE fs
              fs2 == IF ConvertToGrayscale THEN fs1 \ {wtmp[w]} ELSE fs1
              err == IF r.code # "zero" THEN ErrGhostscript
                     ELSE IF wout[w] \notin fs1 THEN ErrNoOutput ELSE ""
              staterr == IF Files[j] \notin fs2 \/ wout[w] \notin fs2 THEN ErrStat ELSE ""
          IN  /\ r.code = "zero" => actualInputPath \in fs
              /\ fs' = fs2
              /\ gsExit' = [gsExit EXCEPT ![j] = r.code]
              /\ IF err # ""
                 THEN Deliver(w, <<>>, err)
                 ELSE Deliver(w, <<"completed">>, staterr)
    /\ UNCHANGED <<reqVars, ctxDone, now, mainVars, workChan, resultClosed, wg,
                   grayCalls, gsCalls, gsInput, options, atCancel>>

WorkerStep(w) ==
    \/ WorkerRecv(w)
    \/ Precheck(w)
    \/ GrayscaleExit(w)
    \/ GhostscriptExit(w)

MainStep == Validate \/ Enqueue \/ StartWorkers \/ Collect \/ Respond

Next ==
    \/ MainStep
    \/ WaitAndClose
    \/ \E w \in Workers : WorkerStep(w)
    \/ Cancel

Spec == Init /\ [][Next]_vars

\* batches of one path, submitted once or several times: the jobs of such a
\* batch share their input, intermediate and output paths (the path without
\* the extension, whose intermediate file is the input itself, is submitted
\* at most twice)
InitOnePath ==
    /\ Init
    /\ \A i, k \in 1..Len(Files) : Files[i] = Files[k]
    /\ Len(Files) > 2 => PathRank(Files[1]) = 1

\* the goroutines are scheduled fairly and every engine process terminates
FairSpec ==
    /\ InitOnePath
    /\ [][Next]_vars
    /\ WF_vars(MainStep)
    /\ WF_vars(WaitAndClose)
    /\ \A w \in Workers : WF_vars(WorkerStep(w))

\* the batch on any machine: the work-item IDs are whatever the clock gives
AnyClockSpec == InitAnyClock /\ [][Next]_vars

(* ------------- the batch over any profile and any options -------------- *)
(* Two workers on two jobs, the steps of CompressPDFWithProgress on the      *)
(* shared options object taken one memory access at a time.                  *)

\* what the PreferencesService may read: the file cannot be read, or it holds
\* the default, another level, or no level
ArgPrefs ==
    [err : {FALSE}, DefaultCompressionLevel : {DefaultCompressionLevel, "aggressive", ""},
     DefaultDownloadFolder : {<<>>}]
        \cup {[DefaultPreferences EXCEPT !.err = TRUE]}

\* options objects the frontend may send: the version, the resolution and the
\* quality set or left at their zero values, any flags
ArgOptions ==
    {[nil |-> FALSE, ImageDPI |-> n.dpi, ImageQuality |-> n.quality,
      PDFVersion |-> Str(n.version), RemoveMetadata |-> rm, EmbedFonts |-> ef,
      GenerateThumbnails |-> gt] :
        n \in {[version |-> "", dpi |-> 0, quality |-> 0],
                [version |-> "1.7", dpi |-> 72, quality |-> 50]},
        rm \in BOOLEAN, ef \in BOOLEAN, gt \in BOOLEAN}

ArgInit ==
    /\ Files = [i \in 1..2 |-> <<"d", "/", "a", ".pdf">>]
    /\ GhostscriptPath = "gs"
    /\ NumCPU = 2
    /\ nanos \in ClockReads(Len(Files), FALSE)
    /\ \/ /\ request \in [CompressionLevel : Levels, AutoDownload : {FALSE},
                          DownloadFolder : {<<>>}, AdvancedOptions : {NilOptions}]
          /\ prefs \in ArgPrefs
          /\ ConvertToGrayscale = FALSE
       \/ /\ request \in [CompressionLevel : Levels, AutoDownload : {FALSE},
                          DownloadFolder : {<<>>}, AdvancedOptions : ArgOptions]
          /\ prefs = DefaultPreferences
          /\ ConvertToGrayscale \in BOOLEAN
    /\ BeforeCall

ArgWorkerStep(w) ==
    \/ WorkerRecv(w)
    \/ EnterCompress(w)
    \/ StoreVersion(w)
    \/ DefaultNumbers(w)
    \/ GrayscaleExit(w)
    \/ GhostscriptExit(w)

ArgNext ==
    \/ MainStep
    \/ WaitAndClose
    \/ \E w \in Workers : ArgWorkerStep(w)

ArgSpec == ArgInit /\ [][ArgNext]_vars

(* ------------------- the drain loop over any sizes --------------------- *)
(* The caller's aggregation, from the moment the workers have left and the  *)
(* result channel is closed: the channel holds the results of the first k   *)
(* of n jobs, processed in order by one worker that a cancellation stopped  *)
(* when k < n, with any file sizes the os.Stat calls may have reported.     *)

\* sizes os.Stat may report for an input or an output file
AggSizes == {0, 1, 2}

\* results a worker may have sent for the work item with the given ID, the
\* input being d/a.pdf
AggResults(id) ==
    {ErrorResult(id, ErrGhostscript)}
        \cup {CompletedResult(id, o, c,
                              CompressedPath(<<"d", "/", "a", ".pdf">>, 0)) :
                  o \in AggSizes, c \in AggSizes}

\* the requests of the drain loop: without auto-download, or with it, into the
\* stored or default folder, into a folder of its own, or into the folder of
\* the input files
AggRequests ==
    {PlainRequest}
        \cup [CompressionLevel : {""}, AutoDownload : {TRUE},
              DownloadFolder : {<<>>, <<"out">>, <<"d">>},
              AdvancedOptions : {DefaultCompressionOptions}]

AggInit ==
    \E n \in 1..MaxFiles : \E k \in 0..n :
        /\ Files = [i \in 1..n |-> <<"d", "/", "a", ".pdf">>]
        /\ ConvertToGrayscale = FALSE
        /\ GhostscriptPath = "gs"
        /\ NumCPU = 1
        /\ nanos \in ClockReads(n, FALSE)
        /\ request \in AggRequests
        /\ options = request.AdvancedOptions
        /\ prefs \in [err : BOOLEAN,
                      DefaultCompressionLevel : {DefaultCompressionLevel},
                      DefaultDownloadFolder : {<<>>}]
        /\ NoOtherOperation
        /\ saveCalls = <<>>
        /\ ctxDone = (k < n)
        /\ now = 0
        /\ totalFiles = n
        /\ maxConcurrency = 1
        /\ mainPC = "drain"
        /\ workChan = [i \in 1..(n - k - 1) |-> k + 1 + i]
        /\ resultChan \in {rs \in [1..k -> UNION {AggResults(fileIDs[i]) : i \in 1..k}] :
                              \A i \in 1..k : rs[i].FileID = fileIDs[i]}
        /\ resultClosed = TRUE
        /\ completedCount = k
        /\ wg = 0
        /\ wpc = [w \in Workers |-> IF w = 0 THEN "done" ELSE "idle"]
        /\ wjob = [w \in Workers |-> 0]
        /\ wout = [w \in Workers |-> <<>>]
        /\ wtmp = [w \in Workers |-> <<>>]
        /\ statusEvents = [j \in Jobs |->
               IF j > n THEN <<>>
               ELSE IF j > k THEN <<"queued">>
               ELSE IF resultChan[j].Status = "error"
                    THEN <<"queued", "compressing", "error">>
                    ELSE <<"queued", "compressing", "completed", "completed">>]
        /\ progressEvents = <<>>
        /\ results = <<>>
        /\ completed = 0
        /\ totals = [orig |-> 0, comp |-> 0]
        /\ statsUpdates = <<>>
        /\ response = NoResponse
        /\ grayCalls = [j \in Jobs |-> 0]
        /\ gsCalls = [j \in Jobs |-> IF j <= k THEN 1 ELSE 0]
        /\ gsExit = [j \in Jobs |->
               IF j > k THEN "none"
               ELSE IF resultChan[j].Status = "error" THEN "nonzero" ELSE "zero"]
        /\ gsInput = [j \in Jobs |-> IF j <= k THEN Files[j] ELSE <<>>]
        /\ builds = [j \in Jobs |-> NoBuild]
        /\ fs = {Files[i] : i \in 1..n}
                 \cup {CompressedPath(Files[j], 0) :
                          j \in {i \in 1..k : resultChan[i].Status = "completed"}}
        /\ atCancel = [signalled |-> k < n, claimed |-> 1..k, inEngine |-> {}]

AggNext == Collect \/ Respond

AggSpec == AggInit /\ [][AggNext]_vars

(* ------------------------------ claims --------------------------------- *)

JobsOf == 1..Len(Files)

\* the batch call has returned after dispatching its jobs
Dispatched == mainPC = "returned" /\ Len(Files) > 0

\* positions of the outcomes of job j in the returned BatchResult
OutcomesOf(j) ==
    {i \in 1..Len(response.Files) : response.Files[i].FileID = fileIDs[j]}

\* the outcome of job j in the returned BatchResult (when it has exactly one)
OutcomeOf(j) == response.Files[CHOOSE i \in OutcomesOf(j) : TRUE]

\* status events emitted for job j
EventsOf(j) == {statusEvents[j][i] : i \in 1..Len(statusEvents[j])}

\* jobs in the Compressing state: claimed, terminal outcome not yet produced
Compressing ==
    {j \in Jobs : Len(statusEvents[j]) > 0
                  /\ statusEvents[j][Len(statusEvents[j])] = "compressing"}

\* C1: a job's failure never affects its siblings or the batch. When the call
\* returns after dispatch, success is true; no job has more than one outcome;
\* every job a worker started has exactly one outcome, an Error outcome exactly
\* when the job failed (in particular when an engine process of the job exited
\* non-zero); and a job is left without an outcome only by cancellation, never
\* by a sibling's failure.
C1_FailureIsIsolated ==
    Dispatched =>
        /\ response.Success = TRUE
        /\ \A j \in JobsOf :
              /\ Cardinality(OutcomesOf(j)) <= 1
              /\ j \in Claimed => Cardinality(OutcomesOf(j)) = 1
              /\ OutcomesOf(j) = {} => ctxDone
              /\ OutcomesOf(j) # {} =>
                    /\ (OutcomeOf(j).Status = "error") = ("error" \in EventsOf(j))
                    /\ (OutcomeOf(j).Status = "error") = (OutcomeOf(j).Error # "")
                    /\ gsExit[j] = "nonzero" => OutcomeOf(j).Status = "error"
                    /\ OutcomeOf(j).Status = "completed" => gsExit[j] = "zero"

\* a batch of two files returned, without cancellation, one file failed in the
\* engine and the other completed
C1_Witness ==
    /\ Dispatched
    /\ ~ctxDone
    /\ Len(Files) = 2
    /\ \E j, k \in JobsOf :
          /\ OutcomesOf(j) # {} /\ OutcomeOf(j).Error = ErrGhostscript
          /\ OutcomesOf(k) # {} /\ OutcomeOf(k).Status = "completed"

\* C2: for every batch that reaches dispatch, the totalFiles of the returned
\* BatchResult equals the number of input paths, with or without cancellation.
C2_TotalFilesIsInputCount ==
    Dispatched => response.TotalFiles = Len(Files)

IsPrefix(a, b) == Len(a) <= Len(b) /\ SubSeq(b, 1, Len(a)) = a

\* C3: for every job the status events emitted are a prefix of Queued,
\* Compressing, then one of Completed or Error.
C3_StatusSequence ==
    \A j \in Jobs :
        \/ IsPrefix(statusEvents[j], <<"queued", "compressing", "completed">>)
        \/ IsPrefix(statusEvents[j], <<"queued", "compressing", "error">>)

\* C4: Completed and Error are terminal: a Completed or Error status event of
\* a job is the last status event of that job.
C4_TerminalIsFinal ==
    \A j \in Jobs : \A i \in 1..Len(statusEvents[j]) :
        statusEvents[j][i] \in {"completed", "error"} => i = Len(statusEvents[j])

C6_Witness ==
    /\ Dispatched
    /\ ctxDone
    /\ resultClosed
    /\ resultChan = <<>>
    /\ \A w \in Workers : wpc[w] \in {"idle", "done"}
    /\ response.TotalFiles < Len(Files)

\* C6: once dispatch has started the call returns a BatchResult: the result
\* channel is closed only after every worker has left, and, the goroutines
\* being scheduled and every engine process terminating, the drain loop ends
\* and the call returns, with or without cancellation.
C6_BatchAlwaysReturns ==
    /\ [](resultClosed => \A w \in Workers : wpc[w] \in {"idle", "done"})
    /\ [](mainPC = "returned" => response.Returned)
    /\ (mainPC = "fill") ~> (mainPC = "returned")

\* C7: when cancellation is signalled with N of the M jobs claimed (past the
\* work loop's cancellation check, Compressing or beyond), the jobs unclaimed
\* at that moment never enter Compressing and no engine process is ever
\* started for them, and the returned BatchResult holds between N and M
\* outcomes.
C7_CancelBoundsOutcomes ==
    atCancel.signalled =>
        /\ Claimed = atCancel.claimed
        /\ \A j \in Jobs \ atCancel.claimed :
              /\ "compressing" \notin EventsOf(j)
              /\ grayCalls[j] = 0
              /\ gsCalls[j] = 0
        /\ Dispatched =>
              /\ Cardinality(atCancel.claimed) <= Len(response.Files)
              /\ Len(response.Files) <= Len(Files)

\* cancellation came with one of two jobs claimed, and the batch returned
\* with one outcome
C7_Witness ==
    /\ Dispatched
    /\ atCancel.signalled
    /\ Len(Files) = 2
    /\ Cardinality(atCancel.claimed) = 1
    /\ Len(response.Files) = 1

\* C8: the cancellation signal is checked before a job is claimed and before
\* the engine is invoked. A worker at the head of the work loop that sees the
\* context cancelled claims nothing (no status event); a worker whose job is
\* Compressing and that reaches the check before the compression with the
\* context cancelled sends an Error outcome carrying the cancellation error,
\* and starts neither the grayscale stage nor the main engine.
C8_CancelCheckedTwice ==
    [][\A w \in Workers :
          /\ (wpc[w] = "recv" /\ ctxDone /\ wpc'[w] # "recv") =>
                /\ statusEvents' = statusEvents
                /\ wpc'[w] = "done"
          /\ (wpc[w] = "precheck" /\ ctxDone /\ wpc'[w] # "precheck") =>
                /\ resultChan' = Append(resultChan,
                       ErrorResult(fileIDs[wjob[w]], ErrCanceled))
                /\ statusEvents'[wjob[w]] = <<"queued", "compressing", "error">>
                /\ grayCalls' = grayCalls
                /\ gsCalls' = gsCalls
      ]_vars

\* a job that was Compressing when its worker saw the cancellation ended with
\* the cancellation error and without any engine process
C8_Witness ==
    /\ Dispatched
    /\ \E j \in JobsOf :
          /\ OutcomesOf(j) # {}
          /\ OutcomeOf(j).Error = ErrCanceled
          /\ statusEvents[j] = <<"queued", "compressing", "error">>
          /\ grayCalls[j] = 0
          /\ gsCalls[j] = 0

\* C9: cancellation is cooperative only. A job whose engine process was
\* running when cancellation was signalled is not killed: its processes end
\* by themselves, and when the call returns the job has exactly one outcome,
\* which is not the cancellation error: Completed only after the engine
\* exited with code zero, Error after a non-zero exit.
C9_InFlightRunsToCompletion ==
    \A j \in atCancel.inEngine :
        /\ gsExit[j] \in {"none", "zero", "nonzero"}
        /\ Dispatched =>
              /\ Cardinality(OutcomesOf(j)) = 1
              /\ OutcomeOf(j).Error # ErrCanceled
              /\ gsExit[j] \in {"zero", "nonzero"}
              /\ gsExit[j] = "nonzero" => OutcomeOf(j).Status = "error"
              /\ OutcomeOf(j).Status = "completed" => gsExit[j] = "zero"

\* a job whose engine was running at the cancellation is Completed in the
\* returned BatchResult
C9_Witness ==
    /\ Dispatched
    /\ \E j \in atCancel.inEngine :
          /\ OutcomesOf(j) # {}
          /\ OutcomeOf(j).Status = "completed"

\* jobs that have produced their terminal outcome
Finished == {j \in JobsOf : EventsOf(j) \cap {"completed", "error"} # {}}

\* C10: with toGrayscale set, once a job has finished its grayscale
\* intermediate file does not exist, whatever the exit path. (Stated for the
\* jobs whose grayscale stage ran and whose intermediate path is a path of its
\* own, i.e. the input path holds ".pdf".)
C10_IntermediateRemoved ==
    (ConvertToGrayscale /\ mainPC = "returned") =>
        \A j \in Finished :
            (grayCalls[j] > 0 /\ ReplaceFirst(Files[j]) # Files[j]) =>
                ReplaceFirst(Files[j]) \notin fs

\* C11: when the engine binary is unavailable (no Ghostscript path was
\* resolved), a batch call fails before the batch: no job is queued, no status
\* event is emitted, no worker is started, and the call returns success=false
\* with the engine-not-found error and no outcomes.
C11_EngineNotFoundIsPreBatch ==
    (GhostscriptPath = "" /\ Len(Files) > 0) =>
        /\ workChan = <<>>
        /\ \A j \in Jobs : statusEvents[j] = <<>>
        /\ \A w \in Workers : wpc[w] = "idle"
        /\ mainPC = "returned" =>
              /\ response.Success = FALSE
              /\ response.Error = ErrNoGhostscript
              /\ response.Files = <<>>

\* C12: whenever the original bytes summed over the Completed outcomes are 0,
\* the overall ratio of the returned BatchResult is exactly 0: a finite
\* number, never NaN and never an infinity.
C12_ZeroOriginalGivesZeroRatio ==
    (mainPC = "returned" /\ response.TotalOriginalSize = 0) =>
        /\ response.OverallCompressionRatio.kind = "finite"
        /\ response.OverallCompressionRatio.num = 0

\* the sum of a size field over the Completed outcomes of a result list
RECURSIVE CompletedSum(_, _)
CompletedSum(rs, field) ==
    IF rs = <<>> THEN 0
    ELSE (IF Head(rs).Status = "completed" THEN Head(rs)[field] ELSE 0)
             + CompletedSum(Tail(rs), field)

\* positions of the outcomes of a result list with the given status
WithStatus(rs, st) == {i \in 1..Len(rs) : rs[i].Status = st}

\* C13: in every BatchResult the byte totals are the sums over the Completed
\* outcomes only (and so are the caller's running totals over the results
\* collected so far); an Error outcome adds nothing to the totals, yet it is
\* in the outcome list and is counted in totalFiles.
C13_TotalsOverCompletedOnly ==
    /\ totalOriginalSize = CompletedSum(results, "OriginalSize")
    /\ totalCompressedSize = CompletedSum(results, "CompressedSize")
    /\ Dispatched =>
          /\ response.Files = results
          /\ response.TotalOriginalSize = CompletedSum(response.Files, "OriginalSize")
          /\ response.TotalCompressedSize =
                 CompletedSum(response.Files, "CompressedSize")
          /\ response.TotalFiles =
                 Cardinality(WithStatus(response.Files, "completed"))
                     + Cardinality(WithStatus(response.Files, "error"))

\* a batch of two files returned with an Error outcome and a Completed
\* outcome of 2 bytes compressed to 1
C13_Witness ==
    /\ Dispatched
    /\ Len(response.Files) = 2
    /\ WithStatus(response.Files, "error") # {}
    /\ \E i \in WithStatus(response.Files, "completed") :
          /\ response.Files[i].OriginalSize = 2
          /\ response.Files[i].CompressedSize = 1
    /\ response.TotalOriginalSize = 2
    /\ response.TotalCompressedSize = 1
    /\ response.TotalFiles = 2

\* all results the workers have sent so far, collected or not
Delivered == results \o resultChan

\* C14: within a batch every outcome id is unique: the work items get
\* pairwise different IDs (also two items of the same path), every queued item
\* is held by at most one worker, and no two outcomes carry the same ID.
C14_IdsAreUnique ==
    /\ mainPC \in {"fill", "drain", "returned"} =>
          \A i, k \in 1..Len(fileIDs) : i # k => fileIDs[i] # fileIDs[k]
    /\ \A j \in Jobs : Cardinality({w \in Workers : wjob[w] = j}) <= 1
    /\ \A i, k \in 1..Len(Delivered) :
          i # k => Delivered[i].FileID # Delivered[k].FileID

\* C15: a batch that reaches dispatch updates the statistics exactly once,
\* after every worker has left and the result channel has been drained, adding
\* the number of Completed outcomes to the file counters and the original
\* bytes minus the compressed bytes to the bytes-saved counters.
C15_StatsUpdatedOncePerBatch ==
    /\ statsEmits <= 1
    /\ statsEmits = 1 =>
          /\ resultClosed
          /\ resultChan = <<>>
          /\ \A w \in Workers : wpc[w] \in {"idle", "done"}
    /\ Dispatched =>
          /\ statsEmits = 1
          /\ stats.SessionFilesCompressed =
                 Cardinality(WithStatus(response.Files, "completed"))
          /\ stats.TotalFilesCompressed =
                 Cardinality(WithStatus(response.Files, "completed"))
          /\ stats.SessionDataSaved =
                 response.TotalOriginalSize - response.TotalCompressedSize
          /\ stats.TotalDataSaved =
                 response.TotalOriginalSize - response.TotalCompressedSize

\* C16: the Queued event of a job is emitted at submission, before any worker
\* claims the job: the first status event of every job is its Queued event
\* (so every Compressing, Completed or Error event of the job comes after
\* it), a job a worker holds has status events, and no worker runs before
\* every job of the batch has status events.
C16_QueuedBeforeClaim ==
    /\ \A j \in Jobs : statusEvents[j] # <<>> => Head(statusEvents[j]) = "queued"
    /\ \A w \in Workers : wjob[w] # 0 => statusEvents[wjob[w]] # <<>>
    /\ (\E w \in Workers : wpc[w] # "idle") =>
          \A j \in JobsOf : statusEvents[j] # <<>>

\* a worker holds a job whose events are Queued, then Compressing, while the
\* sibling job is queued and unclaimed
C16_Witness ==
    /\ Len(Files) = 2
    /\ \E w \in Workers :
          /\ wjob[w] # 0
          /\ statusEvents[wjob[w]] = <<"queued", "compressing">>
    /\ \E j \in JobsOf : statusEvents[j] = <<"queued">>

\* positions of the compression:progress events whose percent is 100
HundredPercent ==
    {i \in 1..Len(progressEvents) :
        progressEvents[i].num = 100 * progressEvents[i].den}

\* C17: a batch that reaches dispatch emits exactly one compression:progress
\* event whose percent is 100, the one emitted after the drain loop, also when
\* every job produced an outcome.
C17_ExactlyOneHundredPercent ==
    Dispatched =>
        /\ Cardinality(HundredPercent) = 1
        /\ HundredPercent = {Len(progressEvents)}

\* the compression:progress events of the drain loop
DrainEvents == SelectSeq(progressEvents, LAMBDA e : e.file = "")

\* C18: the caller emits one aggregate progress event after every outcome it
\* drains: the k-th of these events carries current = k and total = number of
\* submitted files (percent k/total*100), current never exceeds total, and
\* there are as many of these events as outcomes collected, hence as outcomes
\* in the BatchResult. (The events of the drain loop are the first
\* Len(results) progress events; any later one is the final event.)
C18_ProgressCountsOutcomes ==
    LET n == Len(results) IN
    /\ n <= Len(progressEvents)
    /\ \A k \in 1..Len(progressEvents) :
          IF k <= n
          THEN /\ progressEvents[k].file = ""
               /\ progressEvents[k].current = k
               /\ progressEvents[k].total = Len(Files)
               /\ k <= Len(Files)
               /\ progressEvents[k].num = k * 100
               /\ progressEvents[k].den = Len(Files)
          ELSE progressEvents[k].file # ""
    /\ Dispatched => n = Len(response.Files)

\* a batch of two files returned with two outcomes after two drain events
C18_Witness ==
    /\ Dispatched
    /\ Len(Files) = 2
    /\ Len(response.Files) = 2
    /\ Len(DrainEvents) = 2
    /\ DrainEvents[2].current = 2

\* results sent so far for job j
DeliveredOf(j) ==
    LET sent == Delivered
    IN  {i \in 1..Len(sent) : sent[i].FileID = fileIDs[j]}

\* C19: there are no per-file retries. For every job the main engine is
\* started at most once (and so is the grayscale stage) and the job enters
\* Compressing at most once; at any moment the job is at most one of: once in
\* the queue, held by one worker, or the owner of one outcome, so a job that
\* has its outcome, an Error outcome in particular, is neither in the queue
\* nor held by a worker again.
C19_NoRetries ==
    LET sent == Delivered
        ids == fileIDs
    IN  \A j \in JobsOf :
            LET queued == Len(SelectSeq(workChan, LAMBDA x : x = j))
                held == Cardinality({w \in Workers : wjob[w] = j})
                outcomes == Len(SelectSeq(sent, LAMBDA r : r.FileID = ids[j]))
            IN  /\ gsCalls[j] <= 1
                /\ grayCalls[j] <= 1
                /\ Len(SelectSeq(statusEvents[j],
                                 LAMBDA e : e = "compressing")) <= 1
                /\ queued + held + outcomes <= 1

\* a job failed in the main engine, its Error outcome was sent, and its
\* worker went on to the sibling job
C19_Witness ==
    \E j \in JobsOf :
        /\ DeliveredOf(j) # {}
        /\ Delivered[CHOOSE i \in DeliveredOf(j) : TRUE].Error = ErrGhostscript
        /\ gsCalls[j] = 1
        /\ NumCPU = 1
        /\ \E w \in Workers : wjob[w] # 0

\* the errors of the results sent so far for job j ("" for a Completed one)
ErrorsOf(j) == {Delivered[i].Error : i \in DeliveredOf(j)}

C21_SuccessIffExitZeroAndOutput ==
    [][\A w \in Workers :
          LET j == wjob[w]
              sent == resultChan'[Len(resultChan')]
          IN  /\ (wpc[w] = "gray" /\ wpc'[w] # "gray") =>
                    /\ (wpc'[w] = "gs") <=>
                           (gsExit'[j] = "zero" /\ wtmp[w] \in fs')
                    /\ gsExit'[j] = "nonzero" => sent.Error = ErrGrayscale
              /\ (wpc[w] = "gs" /\ wpc'[w] # "gs") =>
                    /\ (sent.Error \notin {ErrGhostscript, ErrNoOutput}) <=>
                           (gsExit'[j] = "zero" /\ wout[w] \in fs')
                    /\ gsExit'[j] = "nonzero" => sent.Error = ErrGhostscript
                    /\ (gsExit'[j] = "zero" /\ wout[w] \notin fs') =>
                           sent.Error = ErrNoOutput
      ]_vars

\* C22: a batch call with an empty file list short-circuits before dispatch.
\* Nothing is queued, no per-file and no aggregate event is emitted, no worker
\* is started, no engine process is started, no result is sent, the
\* statistics are not updated, and the call returns at once with
\* success=false, the "no files" error and no outcomes.
C22_EmptyBatchShortCircuits ==
    Len(Files) = 0 =>
        /\ mainPC \in {"start", "returned"}
        /\ workChan = <<>>
        /\ resultChan = <<>>
        /\ results = <<>>
        /\ progressEvents = <<>>
        /\ statsUpdates = <<>>
        /\ stats = NoStats
        /\ \A j \in Jobs :
              statusEvents[j] = <<>> /\ grayCalls[j] = 0 /\ gsCalls[j] = 0
        /\ \A w \in Workers : wpc[w] = "idle"
        /\ mainPC = "returned" =>
              /\ response.Success = FALSE
              /\ response.Error = ErrNoFilesProvided
              /\ response.Files = <<>>
              /\ response.TotalFiles = 0

\* the call with an empty file list has returned its "no files" response
C22_Witness ==
    /\ Len(Files) = 0
    /\ mainPC = "returned"
    /\ response.Success = FALSE
    /\ response.Error = ErrNoFilesProvided

\* the sum of a size field over the jobs of the batch, in submission order,
\* counting the jobs whose outcome in the BatchResult is Completed
RECURSIVE JobSum(_, _)
JobSum(n, field) ==
    IF n = 0 THEN 0
    ELSE JobSum(n - 1, field)
             + (IF OutcomesOf(n) # {} /\ OutcomeOf(n).Status = "completed"
                THEN OutcomeOf(n)[field] ELSE 0)

\* C29: the totals of a BatchResult are determined by the per-job results,
\* whatever the order in which the workers delivered them: totalFiles is the
\* number of jobs that have an outcome, the byte totals are the sums over the
\* jobs (taken in submission order) with a Completed outcome, and the overall
\* ratio is computed from these two sums; only the order of the outcome list
\* depends on the interleaving.
C29_TotalsIgnoreCompletionOrder ==
    Dispatched =>
        LET orig == JobSum(Len(Files), "OriginalSize")
            comp == JobSum(Len(Files), "CompressedSize")
        IN  /\ response.TotalFiles =
                   Cardinality({j \in JobsOf : OutcomesOf(j) # {}})
            /\ response.TotalOriginalSize = orig
            /\ response.TotalCompressedSize = comp
            /\ response.OverallCompressionRatio = RatioPercent(orig, comp)

\* two jobs of different sizes completed and the outcome list holds them in
\* the reverse of the submission order
C29_Witness ==
    /\ Dispatched
    /\ Len(Files) = 2
    /\ Len(response.Files) = 2
    /\ response.Files[1].FileID = fileIDs[2]
    /\ response.Files[2].FileID = fileIDs[1]
    /\ response.Files[1].Status = "completed"
    /\ response.Files[2].Status = "completed"
    /\ response.Files[1].OriginalSize # response.Files[2].OriginalSize
    /\ response.TotalOriginalSize = 2
    /\ response.TotalCompressedSize = 2

\* C30: workers share no mutable file-system state: the output path and the
\* grayscale intermediate path of the job a worker processes are distinct
\* from the input, output and intermediate paths of the job any other worker
\* processes at the same time.
C30_JobsOwnTheirPaths ==
    \A w, v \in Workers :
        (w # v /\ wpc[w] \in {"precheck", "gray", "gs"}
               /\ wpc[v] \in {"precheck", "gray", "gs"}) =>
            LET written(x) == {wout[x]} \cup
                                 (IF ConvertToGrayscale
                                  THEN {ReplaceFirst(Files[wjob[x]])} ELSE {})
                used(x) == written(x) \cup {Files[wjob[x]]}
            IN  written(w) \cap used(v) = {}

\* the folder the auto-download of the batch copies into
DownloadDir ==
    IF request.DownloadFolder # <<>> THEN request.DownloadFolder
    ELSE GetDownloadFolder(prefs).dir

\* the saved paths of a result list, in the order of the list
SavedPaths(rs) ==
    LET saved == SelectSeq(rs, LAMBDA r : r.SavedPath # <<>>)
    IN  [i \in 1..Len(saved) |-> saved[i].SavedPath]

\* C28: when auto-download is requested, after the batch one save is made per
\* outcome, whatever happened to the saves before it. The output of a
\* Completed outcome whose save did not fail is copied, all its bytes, to
\* the chosen folder under its compressed file name, and that path is recorded
\* on the outcome and listed in downloadPaths; an Error outcome is not copied
\* and gets no saved path; a failed save leaves the outcome without a saved
\* path and changes neither its status nor the totals of the batch.
C28_AutoDownloadCopiesCompleted ==
    (Dispatched /\ request.AutoDownload) =>
        /\ Len(saveCalls) = Len(response.Files)
        /\ \A i \in 1..Len(response.Files) :
              LET r == response.Files[i]
                  c == saveCalls[i]
              IN  /\ c.FileID = r.FileID
                  /\ r.Status \in {"completed", "error"}
                  /\ r.Status = "error" => (r.SavedPath = <<>> /\ ~c.created)
                  /\ c.err => r.SavedPath = <<>>
                  /\ (r.Status = "completed" /\ ~c.err) =>
                        /\ r.SavedPath = Join(DownloadDir, r.CompressedFilename)
                        /\ r.SavedPath = c.dst
                        /\ r.SavedPath \in fs
                        /\ c.src = r.TempPath
                        /\ c.bytes = r.CompressedSize
        /\ response.DownloadPaths = SavedPaths(response.Files)
        /\ response.TotalFiles = Len(response.Files)
        /\ response.TotalOriginalSize = CompletedSum(response.Files, "OriginalSize")
        /\ response.TotalCompressedSize =
               CompletedSum(response.Files, "CompressedSize")

\* the profile the batch is to run with: the request's explicit value, else
\* the stored preference, else (nothing stored, or the preferences cannot be
\* loaded) Balanced
EffectiveProfile ==
    IF request.CompressionLevel # "" THEN request.CompressionLevel
    ELSE IF prefs.err \/ prefs.DefaultCompressionLevel = "" THEN "good_enough"
    ELSE prefs.DefaultCompressionLevel

\* C23: every job in compression is compressed with the preset of the
\* effective profile (the request's explicit value, else the stored
\* preference, else Balanced) and was called with the level the BatchResult
\* reports; that level is the effective profile whenever the request or the
\* preferences name one; no batch is answered with a failure to resolve the
\* level, and when the preferences cannot be loaded the batch still returns
\* one outcome per job
C23_EffectiveProfile ==
    /\ \A j \in JobsOf :
          builds[j].made =>
              /\ PdfSettings(builds[j].compressionLevel) = PdfSettings(EffectiveProfile)
              /\ builds[j].compressionLevel = compressionLevel
    /\ mainPC = "returned" =>
          /\ response.Error # ErrResolveLevel
          /\ response.CompressionLevel = compressionLevel
          /\ PdfSettings(response.CompressionLevel) = PdfSettings(EffectiveProfile)
          /\ (request.CompressionLevel # "" \/ prefs.err
                \/ prefs.DefaultCompressionLevel # "")
                => response.CompressionLevel = EffectiveProfile
          /\ prefs.err => Len(response.Files) = Len(Files)

\* the preferences cannot be loaded, the request names no profile, and both
\* jobs of the batch are being compressed as Balanced
C23_Witness ==
    /\ prefs.err
    /\ request.CompressionLevel = ""
    /\ \A j \in JobsOf : builds[j].made /\ builds[j].compressionLevel = "good_enough"

\* the elements of an argument vector
Elems(args) == {args[i] : i \in 1..Len(args)}

\* the options a job is to be compressed with: the defaults for absent
\* options, else the request's options with the empty version, the
\* non-positive resolution and the non-positive quality defaulted
TargetOptions ==
    LET o == request.AdvancedOptions IN
    IF o.nil
    THEN [PDFVersion |-> "1.4", ImageDPI |-> 150, ImageQuality |-> 85,
          EmbedFonts |-> TRUE, RemoveMetadata |-> FALSE,
          GenerateThumbnails |-> FALSE]
    ELSE [PDFVersion |-> IF o.PDFVersion.len = 0 THEN "1.4" ELSE o.PDFVersion.ptr,
          ImageDPI |-> IF o.ImageDPI <= 0 THEN 150 ELSE o.ImageDPI,
          ImageQuality |-> IF o.ImageQuality <= 0 THEN 85 ELSE o.ImageQuality,
          EmbedFonts |-> o.EmbedFonts, RemoveMetadata |-> o.RemoveMetadata,
          GenerateThumbnails |-> o.GenerateThumbnails]

\* C26: the argument vector built for a job in compression holds the colour,
\* gray and mono resolution flags set to the target DPI and the
\* font-embedding flag; the
\* font/stream compression flags exactly when the profile is Maximum, the
\* metadata flags exactly when RemoveMetadata is set, the thumbnail flag
\* exactly when GenerateThumbnails is set; and its last two elements are the
\* output-file argument and the input path of the main process
C26_ArgumentVectorShape ==
    \A j \in JobsOf :
        builds[j].made =>
            LET args == ArgsOf(builds[j])
                elems == Elems(args)
                t == TargetOptions
                dpi == ToString(t.ImageDPI)
                n == Len(args)
            IN  /\ {<<"-dColorImageResolution=", dpi>>,
                    <<"-dGrayImageResolution=", dpi>>,
                    <<"-dMonoImageResolution=", dpi>>,
                    <<"-dEmbedAllFonts=", FormatBool(t.EmbedFonts)>>} \subseteq elems
                /\ (<<"-dCompressFonts=true">> \in elems) = (EffectiveProfile = "ultra")
                /\ (<<"-dCompressStreams=true">> \in elems) = (EffectiveProfile = "ultra")
                /\ (<<"-dPDFX">> \in elems) = t.RemoveMetadata
                /\ (<<"-dUseCIEColor">> \in elems) = t.RemoveMetadata
                /\ (<<"-dGenerateThumbnails=true">> \in elems) = t.GenerateThumbnails
                /\ n >= 2
                /\ \E tm \in 0..MaxTime :
                      args[n - 1] = <<"-sOutputFile=">> \o CompressedPath(Files[j], tm)
                /\ args[n] = IF ConvertToGrayscale THEN ReplaceFirst(Files[j])
                             ELSE Files[j]

\* a Maximum job with metadata stripping and thumbnails, a resolution of 72
\* and a grayscale stage has had its argument vector built
C26_Witness ==
    /\ EffectiveProfile = "ultra"
    /\ ConvertToGrayscale
    /\ builds[2].made
    /\ builds[2].RemoveMetadata
    /\ builds[2].GenerateThumbnails
    /\ builds[2].ImageDPI = 72
    /\ Len(ArgsOf(builds[2])) = 27

\* the three profiles: Balanced, Aggressive, Maximum
Profiles == {"good_enough", "aggressive", "ultra"}

\* C27: the three profiles have three different presets, and a job called
\* with any other level, the empty one included, gets exactly the argument
\* vector that Balanced gets for the same options and paths
C27_UnknownProfileIsBalanced ==
    /\ \A p, q \in Profiles : p # q => PdfSettings(p) # PdfSettings(q)
    /\ \A j \in JobsOf :
          LET b == builds[j] IN
          b.made =>
              /\ <<"-dPDFSETTINGS=", PdfSettings(b.compressionLevel)>>
                     \in Elems(ArgsOf(b))
              /\ b.compressionLevel \notin Profiles =>
                     ArgsOf(b) = ArgsOf([b EXCEPT !.compressionLevel = "good_enough"])

\* both jobs of a batch with the unknown level "fast" have had their argument
\* vectors built, with the metadata flags
C27_Witness ==
    /\ request.CompressionLevel = "fast"
    /\ \A j \in JobsOf : builds[j].made /\ builds[j].compressionLevel = "fast"
    /\ builds[1].RemoveMetadata

\* the workers that have left the defaulting of the options behind them
PastDefaults == {w \in Workers : wpc[w] \in {"gray", "gs"}}

\* what C24 asks of the values: every argument vector is built from the
\* defaulted options, and a worker past the defaulting of options it was
\* given finds the quality defaulted
DefaultsApplied ==
    /\ \A j \in JobsOf :
          builds[j].made =>
              /\ builds[j].PDFVersion = TargetOptions.PDFVersion
              /\ builds[j].ImageDPI = TargetOptions.ImageDPI
              /\ builds[j].EmbedFonts = TargetOptions.EmbedFonts
              /\ builds[j].RemoveMetadata = TargetOptions.RemoveMetadata
              /\ builds[j].GenerateThumbnails = TargetOptions.GenerateThumbnails
    /\ (PastDefaults # {} /\ ~options.nil) =>
          options.ImageQuality = TargetOptions.ImageQuality

\* a job ended in error before any engine process was started for it
FailedOnOptions(j) ==
    /\ statusEvents[j] # <<>>
    /\ statusEvents[j][Len(statusEvents[j])] = "error"
    /\ grayCalls[j] = 0
    /\ gsCalls[j] = 0

\* C24: absent options are replaced by the defaults and an empty version, a
\* non-positive resolution and a non-positive quality are defaulted to "1.4",
\* 150 and 85 before the argument vector is built, and no job fails (nor does
\* the batch die) because of its option values
C24_OptionsRecovered ==
    /\ DefaultsApplied
    /\ \A j \in JobsOf : ~FailedOnOptions(j)
    /\ mainPC # "crashed"

\* what C25 asks of two builds: the vector is a function of the profile, the
\* options and the two paths
SameInputsSameArgs ==
    /\ \A j, k \in JobsOf :
          (/\ builds[j].made
           /\ builds[k].made
           /\ Files[j] = Files[k]
           /\ builds[j].outputPath = builds[k].outputPath
           /\ builds[j].actualInputPath = builds[k].actualInputPath)
              => ArgsOf(builds[j]) = ArgsOf(builds[k])
    /\ \A j \in JobsOf :
          builds[j].made =>
              ArgsOf(builds[j]) =
                  BuildArgs(compressionLevel, TargetOptions,
                            builds[j].outputPath, builds[j].actualInputPath)

\* C25: two builds with the same profile, options, input path and output
\* path give the same argument vector, whatever was built before and whatever
\* the other worker is doing: every build gives the vector of its inputs and
\* none faults
C25_BuilderIsPure ==
    /\ SameInputsSameArgs
    /\ \A w \in Workers : wpc[w] # "crashed"

\* every FileResult the workers have sent so far
Sent == results \o resultChan

\* what C33 asks but for the wording of the error: with no engine configured
\* no engine process of either stage is started, the files are those of the
\* request, and every job that reached CompressPDF failed
NoEngineNoEffect ==
    GhostscriptPath = "" =>
        /\ \A j \in Jobs : grayCalls[j] = 0 /\ gsCalls[j] = 0 /\ ~builds[j].made
        /\ fs = {Files[i] : i \in 1..Len(Files)}
        /\ \A i \in 1..Len(Sent) :
              /\ Sent[i].Status = "error"
              /\ Sent[i].Error \in {ErrCanceled, ErrNoGhostscript}

\* C33: with an empty engine path CompressPDF returns a "ghostscript not
\* found" error at once, whatever the input and the options: no process of
\* the grayscale stage or of the main stage is started, no file is created or
\* removed, and the error of every job that reached CompressPDF contains
\* "ghostscript not found"
C33_NoEngineFailsAtOnce ==
    /\ NoEngineNoEffect
    /\ GhostscriptPath = "" =>
          \A i \in 1..Len(Sent) :
              Sent[i].Error # ErrCanceled =>
                  contains(ErrorText(Sent[i].Error), <<"ghostscript", "not", "found">>)

\* the input files of the request whose path holds ".pdf"
HasPdf(p) == ".pdf" \in {p[i] : i \in 1..Len(p)}

\* what C35 asks of the jobs that run no grayscale stage, and of the inputs
\* whose path holds ".pdf"
InputsKeptOtherwise ==
    \A i \in 1..Len(Files) :
        (~ConvertToGrayscale \/ HasPdf(Files[i])) => Files[i] \in fs

\* C35: whatever the input path and the options, and however the job ends,
\* the input file of a job is still there, and no engine process was given
\* the input file as the file to write
C35_InputNeverTouched ==
    /\ \A i \in 1..Len(Files) : Files[i] \in fs
    /\ \A w \in Workers :
          wjob[w] # 0 => wtmp[w] # Files[wjob[w]] /\ wout[w] # Files[wjob[w]]

\* C36: no channel operation of the dispatcher blocks forever or panics: the
\* work, result and counter channels never hold more values than their
\* capacity, the number of files, so no send finds its channel full; the work
\* channel is filled and closed before any worker runs; and once the result
\* and counter channels are closed every worker has left, so none can send on
\* them
C36_ChannelsNeverBlock ==
    LET cap == ChanCap(totalFiles) IN
    /\ Len(workChan) <= cap
    /\ Len(resultChan) <= cap
    /\ completedCount <= cap
    /\ mainPC \in {"start", "fill"} => \A w \in Workers : wpc[w] = "idle"
    /\ resultClosed => wg = 0 /\ \A w \in Workers : wpc[w] \in {"idle", "done"}

\* both workers have sent their results and left, the channels are closed,
\* and the caller has not received anything yet: the result channel is full
C36_Witness ==
    /\ resultClosed
    /\ totalFiles = 2
    /\ Len(resultChan) = 2
    /\ completedCount = 2
    /\ wpc[0] = "done"
    /\ wpc[1] = "done"

\* the option values two argument builders read
SameValues(a, b) ==
    /\ a.PDFVersion = b.PDFVersion
    /\ a.ImageDPI = b.ImageDPI
    /\ a.EmbedFonts = b.EmbedFonts
    /\ a.RemoveMetadata = b.RemoveMetadata
    /\ a.GenerateThumbnails = b.GenerateThumbnails

\* the argument vectors that are built in a batch are built from the same
\* option values
SiblingsAgree ==
    \A j, k \in JobsOf : (builds[j].made /\ builds[k].made) => SameValues(builds[j], builds[k])

\* a worker has read options.PDFVersion while a sibling had stored half of it
TornRead == \E w \in Workers : wpc[w] = "crashed"

\* C37: in every interleaving of the workers, which default the fields of
\* the one options object in place, every worker builds its argument vector
\* from the option values its siblings use: the vectors built agree on the
\* values, and no worker reads a value that a sibling is in the middle of
\* storing
C37_SiblingsUseSameOptions ==
    /\ SiblingsAgree
    /\ ~TornRead

\* the ratio of a Completed outcome is the quotient of the sizes it reports
RatioIsQuotient(r) ==
    /\ r.CompressionRatio.num * r.OriginalSize = (r.OriginalSize - r.CompressedSize) * 100 * r.CompressionRatio.den
    /\ r.CompressionRatio.den # 0

\* the ratio of every Completed outcome of a non-empty input is finite and
\* is (original - compressed) / original * 100
NonEmptyRatioDefined ==
    \A i \in 1..Len(Sent) :
        (Sent[i].Status = "completed" /\ Sent[i].OriginalSize # 0)
            => Sent[i].CompressionRatio.kind = "finite" /\ RatioIsQuotient(Sent[i])

\* C38: the compression ratio of every Completed outcome is a finite number,
\* the quotient (original size - compressed size) / original size * 100
\* (negative when the output is larger), and is never computed by a division
\* by zero, an input of size 0 included
C38_RatioIsFinite ==
    /\ NonEmptyRatioDefined
    /\ \A i \in 1..Len(Sent) :
           Sent[i].Status = "completed" => Sent[i].CompressionRatio.kind = "finite"

(* ------------------------- engine resolution --------------------------- *)
(* config.New on each start of the application: setupGhostscriptPath on a   *)
(* fresh Config, against whatever an earlier start or the system left under *)
(* os.TempDir()/kleinpdf-ghostscript and against the embedded archive.      *)

\* entries of the embedded tar archive: the regular file ghostscript/bin/gs,
\* the directories ghostscript/lib and ghostscript/share/ghostscript, an
\* entry whose name leaves the extraction directory ("evil"), and a damaged
\* header ("bad")
ArchiveEntries == {"gs", "lib", "share", "evil", "bad"}

\* longest archive
MaxEntries == 3

\* the embedded archives
Archives ==
    {NoArchive} \cup
        [readable : {TRUE}, entries : UNION {[1..n -> ArchiveEntries] : n \in 0..MaxEntries}]

\* what the extraction directory may hold when the application starts
ExtractDirs ==
    {NoExtractDir} \cup
        [exists : {TRUE}, gs : {"absent", "noexec", "exec"}, lib : BOOLEAN, share : BOOLEAN]

\* Config.isValidGhostscriptInstallation
isValidGhostscriptInstallation(d) ==
    /\ d.gs = "exec"
    /\ d.lib
    /\ d.share

\* os.RemoveAll(extractDir)
RemoveAll(d) == NoExtractDir

\* the effect of one entry of the archive: the file gs is written and made
\* executable, a directory is made
ExtractEntry(d, e) ==
    IF e = "gs" THEN [d EXCEPT !.gs = "exec"]
    ELSE IF e = "lib" THEN [d EXCEPT !.lib = TRUE]
    ELSE IF e = "share" THEN [d EXCEPT !.share = TRUE]
    ELSE d

\* the loop over tarReader.Next() from entry i on: the directory it leaves and
\* whether it returned an error
RECURSIVE ExtractFrom(_, _, _)
ExtractFrom(d, entries, i) ==
    IF i > Len(entries) THEN [dir |-> d, err |-> FALSE]
    ELSE IF entries[i] \in {"evil", "bad"} THEN [dir |-> d, err |-> TRUE]
    ELSE ExtractFrom(ExtractEntry(d, entries[i]), entries, i + 1)

\* Config.extractGhostscriptFromEmbed
extractGhostscriptFromEmbed(d, archive) ==
    LET made == [d EXCEPT !.exists = TRUE]
    IN  IF ~archive.readable THEN [dir |-> made, err |-> TRUE]
        ELSE ExtractFrom(made, archive.entries, 1)

\* Config.setupGhostscriptPath on a fresh Config: the path it configures and
\* the directory it leaves
setupGhostscriptPath(d, archive) ==
    IF isValidGhostscriptInstallation(d) THEN [path |-> "gs", dir |-> d]
    ELSE LET x == extractGhostscriptFromEmbed(RemoveAll(d), archive)
         IN  IF x.err THEN [path |-> "", dir |-> x.dir]
             ELSE IF isValidGhostscriptInstallation(x.dir) THEN [path |-> "gs", dir |-> x.dir]
             ELSE [path |-> "", dir |-> RemoveAll(x.dir)]

\* PDFService.IsGhostscriptAvailable
IsGhostscriptAvailable == GhostscriptPath # ""

\* a start of the application
Setup ==
    LET r == setupGhostscriptPath(extractDir, BundledAssets)
    IN  /\ GhostscriptPath' = r.path
        /\ extractDir' = r.dir
        /\ op' = "setupGhostscriptPath"
        /\ UNCHANGED <<callVars, fs, statsUpdates, prefs, BundledAssets, shareRoot,
                       gsLibPaths, updateCall, mstats, callers>>

EngineInit ==
    /\ NoCall
    /\ prefs = DefaultPreferences
    /\ GhostscriptPath = ""
    /\ extractDir \in ExtractDirs
    /\ BundledAssets \in Archives
    /\ shareRoot = NoShareRoot
    /\ gsLibPaths = <<>>
    /\ updateCall = NoUpdateCall
    /\ mstats = NoStats
    /\ callers = <<>>
    /\ op = ""

EngineSpec == EngineInit /\ [][Setup]_vars

\* an engine is configured only when the extracted installation is whole
EngineWholeWhenConfigured ==
    op = "setupGhostscriptPath" =>
        (IsGhostscriptAvailable => isValidGhostscriptInstallation(extractDir))

\* the archive is read to its end
ArchiveWhole ==
    /\ BundledAssets.readable
    /\ \A i \in 1..Len(BundledAssets.entries) : BundledAssets.entries[i] \notin {"evil", "bad"}

\* an extraction that ran to its end and left no whole installation is
\* removed
InvalidExtractionRemoved ==
    (op = "setupGhostscriptPath" /\ ArchiveWhole /\ ~IsGhostscriptAvailable)
        => extractDir = NoExtractDir

\* C31: after engine resolution an engine path is configured only if the
\* binary exists and is executable and the lib and share directories of the
\* bundle exist; otherwise the path is empty, the failed extraction is
\* removed, and IsGhostscriptAvailable, which is true exactly when the path
\* is non-empty, reports no engine
C31_EngineResolved ==
    op = "setupGhostscriptPath" =>
        /\ IsGhostscriptAvailable <=> GhostscriptPath # ""
        /\ IsGhostscriptAvailable => isValidGhostscriptInstallation(extractDir)
        /\ ~IsGhostscriptAvailable => extractDir = NoExtractDir

(* ----------------------- resource search path -------------------------- *)
(* discoverGhostscriptResourcePaths(shareRoot) for a bundled engine: the    *)
(* share root is absent, a file, or a directory whose entries are named by  *)
(* strings, here sequences of characters compared byte by byte.             *)

\* the byte of a character
Byte(c) ==
    IF c = "." THEN 46
    ELSE IF c = "0" THEN 48
    ELSE IF c = "1" THEN 49
    ELSE IF c = "5" THEN 53
    ELSE IF c = "9" THEN 57
    ELSE 102

\* names an entry of the share root may have: 9.5, 10.0, 10.1 and f
EntryNames ==
    {<<"9", ".", "5">>, <<"1", "0", ".", "0">>, <<"1", "0", ".", "1">>, <<"f">>}

\* an entry of the share root: what it is (absent, a file or a directory)
\* and, for a directory, what its Resource/Init and lib are
EntryStates ==
    [kind : {"absent", "file"}, init : {"absent"}, lib : {"absent"}]
        \cup [kind : {"dir"}, init : {"absent", "file", "dir"},
              lib : {"absent", "file", "dir"}]

\* the share roots: readable tells that os.ReadDir succeeds
ShareRoots ==
    {NoShareRoot, [kind |-> "file", entries |-> {}]}
        \cup [kind : {"dir"}, readable : BOOLEAN, entries : [EntryNames -> EntryStates]]

\* a < b for Go strings
StringLess(a, b) ==
    \E i \in 1..Len(b) :
        /\ \A k \in 1..(i - 1) : k <= Len(a) /\ a[k] = b[k]
        /\ \/ i = Len(a) + 1
           \/ i <= Len(a) /\ Byte(a[i]) < Byte(b[i])

\* sort.Strings of the strings of a set
RECURSIVE SortStrings(_)
SortStrings(S) ==
    IF S = {} THEN <<>>
    ELSE LET least == CHOOSE a \in S : \A b \in S \ {a} : StringLess(a, b)
         IN  <<least>> \o SortStrings(S \ {least})

\* strings.Contains(name, ".")
ContainsDot(name) == \E i \in 1..Len(name) : name[i] = "."

\* variant: versions[0]
bestFirst(versions) == versions[1]

\* best := versions[len(versions)-1]
best(versions) == versions[Len(versions)]

\* a path of the result: the share root itself, or a sub-directory of a
\* version directory
RootPath == [version |-> <<>>, sub |-> ""]

\* candidateDirs that exist as directories, in their order
ExistingCandidates(sr, v) ==
    (IF sr.entries[v].init = "dir" THEN <<[version |-> v, sub |-> "Resource/Init"]>> ELSE <<>>)
        \o (IF sr.entries[v].lib = "dir" THEN <<[version |-> v, sub |-> "lib"]>> ELSE <<>>)

\* PDFService.discoverGhostscriptResourcePaths
discoverGhostscriptResourcePaths(sr) ==
    IF sr.kind # "dir" THEN <<>>
    ELSE IF ~sr.readable THEN <<RootPath>>
    ELSE LET versions == SortStrings({n \in EntryNames :
                                          sr.entries[n].kind = "dir" /\ ContainsDot(n)})
         IN  IF Len(versions) = 0 THEN <<RootPath>>
             ELSE <<RootPath>> \o ExistingCandidates(sr, best(versions))

Discover ==
    /\ op = ""
    /\ gsLibPaths' = discoverGhostscriptResourcePaths(shareRoot)
    /\ op' = "discoverGhostscriptResourcePaths"
    /\ UNCHANGED <<callVars, fs, statsUpdates, prefs, GhostscriptPath, extractDir,
                   BundledAssets, shareRoot, updateCall, mstats, callers>>

ResInit ==
    /\ NoCall
    /\ prefs = DefaultPreferences
    /\ GhostscriptPath = "gs"
    /\ extractDir = NoExtractDir
    /\ BundledAssets = NoArchive
    /\ shareRoot \in ShareRoots
    /\ gsLibPaths = <<>>
    /\ updateCall = NoUpdateCall
    /\ mstats = NoStats
    /\ callers = <<>>
    /\ op = ""

ResSpec == ResInit /\ [][Discover]_vars

\* the version directories of the share root
VersionDirs ==
    {n \in EntryNames : shareRoot.entries[n].kind = "dir" /\ ContainsDot(n)}

\* v sorts highest among the version directories
HighestSorted(v) ==
    /\ v \in VersionDirs
    /\ \A u \in VersionDirs \ {v} : StringLess(u, v)

StrV(s) == [t |-> "string", s |-> s, p |-> <<>>, num |-> 0, den |-> 1, b |-> FALSE]
PathV(p) == [t |-> "string", s |-> "", p |-> p, num |-> 0, den |-> 1, b |-> FALSE]
NumV(num, den) == [t |-> "float64", s |-> "", p |-> <<>>, num |-> num, den |-> den, b |-> FALSE]
BoolV(b) == [t |-> "bool", s |-> "", p |-> <<>>, num |-> 0, den |-> 1, b |-> b]

\* the keys of an update map: four that UpdatePreferences knows, one it does not
UpdateKeys ==
    {"default_download_folder", "default_compression_level", "auto_download_enabled",
     "image_dpi", "unknown_key"}

\* values a key may come with: of the expected type and of another; "NUL" is
\* the zero byte, which no path may contain
UpdateValues(k) ==
    IF k = "default_download_folder"
    THEN {PathV(<<>>), PathV(<<"out", "/">>), PathV(<<"bad", "NUL">>), NumV(42, 1)}
    ELSE IF k = "default_compression_level" THEN {StrV("ultra"), NumV(42, 1)}
    ELSE IF k = "auto_download_enabled" THEN {BoolV(TRUE), StrV("yes")}
    ELSE IF k = "image_dpi" THEN {NumV(300, 1), NumV(601, 2), StrV("300")}
    ELSE {BoolV(TRUE)}

\* the update maps
UpdateMaps ==
    UNION {{d \in [K -> UNION {UpdateValues(k) : k \in K}] :
                \A k \in K : d[k] \in UpdateValues(k)} : K \in SUBSET UpdateKeys}

\* what may be stored before the call: the defaults of a fresh installation,
\* values a user has set, or a database that cannot be read
StoredPreferences ==
    {[err |-> e, DefaultDownloadFolder |-> f.folder, DefaultCompressionLevel |-> f.level,
      AutoDownloadEnabled |-> f.auto, ImageDPI |-> f.dpi] :
        e \in BOOLEAN,
        f \in {[folder |-> <<>>, level |-> "good_enough", auto |-> FALSE, dpi |-> 150],
               [folder |-> <<"old">>, level |-> "aggressive", auto |-> TRUE, dpi |-> 72]}}

\* filepath.Clean, as far as the paths of the model go: no trailing separator
RECURSIVE Clean(_)
Clean(p) ==
    IF p = <<>> THEN <<".">>
    ELSE IF Len(p) > 1 /\ p[Len(p)] = "/" THEN Clean(SubSeq(p, 1, Len(p) - 1))
    ELSE p

\* os.MkdirAll(folderPath, 0755) succeeds
MkdirAllOK(p) == \A i \in 1..Len(p) : p[i] # "NUL"

\* int(dpi) of a non-negative float64
IntOf(v) == v.num \div v.den

\* json.Marshal of a UserPreferencesData: the members of the object
Marshal(p) ==
    [default_download_folder |-> p.DefaultDownloadFolder,
     default_compression_level |-> p.DefaultCompressionLevel,
     auto_download_enabled |-> p.AutoDownloadEnabled,
     image_dpi |-> p.ImageDPI]

\* json.Unmarshal into a UserPreferencesData
Unmarshal(j) ==
    [err |-> FALSE,
     DefaultDownloadFolder |-> j.default_download_folder,
     DefaultCompressionLevel |-> j.default_compression_level,
     AutoDownloadEnabled |-> j.auto_download_enabled,
     ImageDPI |-> j.image_dpi]

\* the download folder after the first block of UpdatePreferences
UpdatedFolder(cur, data) ==
    IF "default_download_folder" \notin DOMAIN data THEN cur
    ELSE LET val == data["default_download_folder"]
         IN  IF val.t = "string" /\ val.p # <<>>
             THEN IF MkdirAllOK(Clean(val.p)) THEN Clean(val.p) ELSE cur
             ELSE <<>>

\* currentPrefs after all blocks of UpdatePreferences
UpdatedPrefs(cur, data) ==
    [err |-> FALSE,
     DefaultDownloadFolder |-> UpdatedFolder(cur.DefaultDownloadFolder, data),
     DefaultCompressionLevel |->
         IF "default_compression_level" \in DOMAIN data
                /\ data["default_compression_level"].t = "string"
         THEN data["default_compression_level"].s ELSE cur.DefaultCompressionLevel,
     AutoDownloadEnabled |->
         IF "auto_download_enabled" \in DOMAIN data
                /\ data["auto_download_enabled"].t = "bool"
         THEN data["auto_download_enabled"].b ELSE cur.AutoDownloadEnabled,
     ImageDPI |->
         IF "image_dpi" \in DOMAIN data /\ data["image_dpi"].t = "float64"
         THEN IntOf(data["image_dpi"]) ELSE cur.ImageDPI]

\* PreferencesService.UpdatePreferences(data)
UpdatePreferences ==
    /\ ~updateCall.called
    /\ \E data \in UpdateMaps :
           IF prefs.err
           THEN /\ updateCall' = [called |-> TRUE, data |-> data, before |-> prefs,
                                  err |-> TRUE]
                /\ UNCHANGED <<prefs, fs>>
           ELSE /\ updateCall' = [called |-> TRUE, data |-> data, before |-> prefs,
                                  err |-> FALSE]
                /\ prefs' = Unmarshal(Marshal(UpdatedPrefs(prefs, data)))
                /\ fs' = IF UpdatedFolder(<<>>, data) # <<>>
                         THEN fs \cup {UpdatedFolder(<<>>, data)} ELSE fs
    /\ op' = "UpdatePreferences"
    /\ UNCHANGED <<callVars, statsUpdates, GhostscriptPath, extractDir, BundledAssets,
                   shareRoot, gsLibPaths, mstats, callers>>

PrefInit ==
    /\ NoCall
    /\ prefs \in StoredPreferences
    /\ GhostscriptPath = "gs"
    /\ extractDir = NoExtractDir
    /\ BundledAssets = NoArchive
    /\ shareRoot = NoShareRoot
    /\ gsLibPaths = <<>>
    /\ updateCall = NoUpdateCall
    /\ mstats = NoStats
    /\ callers = <<>>
    /\ op = ""

PrefSpec == PrefInit /\ [][UpdatePreferences]_vars

\* the key is in the map of the call with a value of the given type
Given(k, t) == k \in DOMAIN updateCall.data /\ updateCall.data[k].t = t

\* a call on preferences that can be read has returned
Updated == updateCall.called /\ ~updateCall.before.err

\* the three fields that are not the folder hold the value given under their
\* key when it has their type, and what was stored before otherwise
PlainFieldsFramed ==
    Updated =>
        /\ prefs.DefaultCompressionLevel =
               IF Given("default_compression_level", "string")
               THEN updateCall.data["default_compression_level"].s
               ELSE updateCall.before.DefaultCompressionLevel
        /\ prefs.AutoDownloadEnabled =
               IF Given("auto_download_enabled", "bool")
               THEN updateCall.data["auto_download_enabled"].b
               ELSE updateCall.before.AutoDownloadEnabled
        /\ prefs.ImageDPI =
               IF Given("image_dpi", "float64")
               THEN IntOf(updateCall.data["image_dpi"])
               ELSE updateCall.before.ImageDPI

\* the folder holds the cleaned path given as a string when it can be
\* created, is empty when the empty string is given, and is what was stored
\* before when the key is missing or the folder cannot be created
FolderFramedForStrings ==
    (Updated /\ ~Given("default_download_folder", "float64")) =>
        prefs.DefaultDownloadFolder =
            IF ~Given("default_download_folder", "string")
            THEN updateCall.before.DefaultDownloadFolder
            ELSE LET p == updateCall.data["default_download_folder"].p
                 IN  IF p = <<>> THEN <<>>
                     ELSE IF MkdirAllOK(Clean(p)) THEN Clean(p)
                     ELSE updateCall.before.DefaultDownloadFolder

\* a call on preferences that can be read returns no error
NoErrorOnSkips == Updated => ~updateCall.err

\* C34: UpdatePreferences changes exactly the fields whose key is in the map
\* with a value of the expected type, GetPreferences then returns the new
\* values and every other field as it was, and unknown keys, values of
\* another type and a download folder that cannot be created are skipped
\* without an error
C34_ExactlyGivenFieldsChange ==
    /\ NoErrorOnSkips
    /\ PlainFieldsFramed
    /\ FolderFramedForStrings
    /\ (Updated /\ Given("default_download_folder", "float64")) =>
           prefs.DefaultDownloadFolder = updateCall.before.DefaultDownloadFolder

(* ---------------------- two batches, one StatsManager ------------------ *)
(* Two calls of CompressPDFWithContext on the same handler have drained     *)
(* their results and call h.statsManager.UpdateStats(len(results),          *)
(* dataSaved), each in the goroutine of its call. UpdateStats holds no      *)
(* lock: each += is a load of the field and a store of the sum, and the     *)
(* event carries the pointer m.stats, whose fields are read one by one.     *)

\* the goroutines of the two calls, each a record: pc counts the memory
\* accesses it has made in UpdateStats, reg is the value it loaded, snap what
\* was read of the object for its event
Callers == {1, 2}

\* the fields of AppStats in the order UpdateStats adds to them
StatFields ==
    <<"SessionFilesCompressed", "SessionDataSaved", "TotalFilesCompressed",
      "TotalDataSaved">>

\* len(results) and dataSaved of a batch
Contributions == [filesCompressed : {1, 2}, dataSaved : {1, 5}]

\* what UpdateStats adds to field i
Addend(c, i) ==
    IF i \in {1, 3} THEN callers[c].filesCompressed ELSE callers[c].dataSaved

\* pc of the last store and of the last read of UpdateStats
LastStore == 8
LastRead == 12

\* the load of m.stats.<field> of a +=
Load(c) ==
    /\ callers[c].pc < LastStore
    /\ callers[c].pc % 2 = 0
    /\ callers' = [callers EXCEPT ![c].pc = @ + 1,
                                  ![c].reg = mstats[StatFields[callers[c].pc \div 2 + 1]]]
    /\ UNCHANGED <<mstats, statsUpdates>>

\* the store of the sum of a +=
Store(c) ==
    /\ callers[c].pc < LastStore
    /\ callers[c].pc % 2 = 1
    /\ LET i == callers[c].pc \div 2 + 1
       IN  mstats' = [mstats EXCEPT ![StatFields[i]] = callers[c].reg + Addend(c, i)]
    /\ callers' = [callers EXCEPT ![c].pc = @ + 1]
    /\ UNCHANGED statsUpdates

\* EventsEmit(m.ctx, EventStatsUpdate, m.stats): the read of one field of the
\* object for the event; with the last field the event is out and
\* UpdateStats returns
EmitRead(c) ==
    /\ callers[c].pc >= LastStore
    /\ callers[c].pc < LastRead
    /\ LET f == StatFields[callers[c].pc - LastStore + 1]
           snap == [callers[c].snap EXCEPT ![f] = mstats[f]]
       IN  /\ callers' = [callers EXCEPT ![c].pc = @ + 1, ![c].snap = snap]
           /\ statsUpdates' = IF callers[c].pc + 1 = LastRead
                              THEN Append(statsUpdates, snap) ELSE statsUpdates
    /\ UNCHANGED mstats

StatStep(c) ==
    /\ \/ Load(c)
       \/ Store(c)
       \/ EmitRead(c)
    /\ UNCHANGED <<callVars, fs, prefs, GhostscriptPath, extractDir, BundledAssets,
                   shareRoot, gsLibPaths, updateCall, op>>

StatInit ==
    /\ NoCall
    /\ prefs = DefaultPreferences
    /\ GhostscriptPath = "gs"
    /\ extractDir = NoExtractDir
    /\ BundledAssets = NoArchive
    /\ shareRoot = NoShareRoot
    /\ gsLibPaths = <<>>
    /\ updateCall = NoUpdateCall
    /\ mstats = NoStats
    /\ callers \in {[c \in Callers |->
                          [pc |-> 0, filesCompressed |-> u[c].filesCompressed,
                           dataSaved |-> u[c].dataSaved, reg |-> 0, snap |-> NoStats]] :
                         u \in [Callers -> Contributions]}
    /\ op = ""

StatNext == \E c \in Callers : StatStep(c)

StatSpec == StatInit /\ [][StatNext]_vars

\* the AppStats after the updates of the batches of S and no other
StatsOf(S) ==
    LET sumFiles == (IF 1 \in S THEN callers[1].filesCompressed ELSE 0)
                        + (IF 2 \in S THEN callers[2].filesCompressed ELSE 0)
        sumSaved == (IF 1 \in S THEN callers[1].dataSaved ELSE 0)
                        + (IF 2 \in S THEN callers[2].dataSaved ELSE 0)
    IN  [SessionFilesCompressed |-> sumFiles, SessionDataSaved |-> sumSaved,
         TotalFilesCompressed |-> sumFiles, TotalDataSaved |-> sumSaved]

\* the counters never exceed the contributions of both batches, and a batch
\* emits one snapshot
StatsBounded ==
    /\ \A i \in 1..4 : mstats[StatFields[i]] <= StatsOf(Callers)[StatFields[i]]
    /\ Len(statsUpdates) = Cardinality({c \in Callers : callers[c].pc = LastRead})

\* C39: when two batch calls run at the same time on one service, after
\* both have returned the counters are the initial values plus what both
\* batches contributed, and every snapshot emitted holds the counters after
\* a whole number of batch updates, the file counters and the byte counters
\* after the same updates
C39_NoLostStatsUpdate ==
    /\ (\A c \in Callers : callers[c].pc = LastRead) => mstats = StatsOf(Callers)
    /\ \A i \in 1..Len(statsUpdates) : \E S \in SUBSET Callers : statsUpdates[i] = StatsOf(S)

====
